---- MODULE Spec2Model ----
(***************************************************************************)
(* Reconciliation and consistency engine of gtui: the background sync      *)
(* loop of main.rs, the SyncState guard of sync.rs, the SQLite store of    *)
(* db.rs, the undo stack of undo.rs and the archive / delete / undo key    *)
(* handlers of main.rs.                                                    *)
(*                                                                         *)
(* Every awaited call on shared state (a db call, a remote call, a lock    *)
(* section, a channel operation) is one step of the task that makes it;    *)
(* the sync task and the interactive task interleave between such steps.   *)
(***************************************************************************)
EXTENDS Integers, Sequences, FiniteSets, TLC

----------------------------------------------------------------------------
\* The mailbox universe: message ids with their immutable remote attributes.

Msgs == {"A", "B", "C", "D"}

SmallMailbox == {"A", "B", "C"}

Labels == {"INBOX", "CATEGORY_SOCIAL"}

\* The labels a store may hold: the two of the mailbox above, a system label
\* and two user labels, whose ids say nothing about their names.
AllLabels == {"INBOX", "CATEGORY_SOCIAL", "SENT", "Label_1", "Label_2"}

\* models.rs Label::name
NameOf == [l \in AllLabels |-> IF l = "Label_1" THEN "Work"
                               ELSE IF l = "Label_2" THEN "Admin" ELSE l]

\* the names in the byte order of String::cmp and of SQLite's BINARY collation
NamesAscending == <<"Admin", "CATEGORY_SOCIAL", "INBOX", "SENT", "Work">>

NameRank(l) == CHOOSE k \in 1..Len(NamesAscending) : NamesAscending[k] = NameOf[l]

\* Order in which the remote service lists the labels.
RemoteLabelList == <<"CATEGORY_SOCIAL", "INBOX">>

ThreadOf == [m \in Msgs |-> IF m \in {"A", "B"} THEN "T1" ELSE IF m = "C" THEN "T2" ELSE "T3"]

DateOf == [m \in Msgs |-> IF m = "A" THEN 100 ELSE IF m = "B" THEN 200 ELSE IF m = "C" THEN 300 ELSE 400]

\* models.rs Message, reduced to the fields the engine reads or writes.
NoRow == [id |-> "", thread_id |-> "", internal_date |-> 0, is_read |-> FALSE]

\* gmail.rs get_message: the record built from the remote message.
RemoteMessage(id) == [id |-> id, thread_id |-> ThreadOf[id], internal_date |-> DateOf[id], is_read |-> FALSE]

----------------------------------------------------------------------------
\* Program constants (the scaled ones keep the source's ratio 1 : 2 of page
\* size to local window) and the bounds of the model.

\* sync.rs GRACE_PERIOD, seconds
GRACE_PERIOD == 300

\* main.rs list_messages(.., 100, None): ids per page, scaled
PageSize == 1

\* main.rs get_messages_with_dates_by_label(label_id, 200): local window, scaled
LocalLimit == 2

\* main.rs mpsc::channel::<String>(16): priority channel capacity, scaled
PriorityCapacity == 2

\* main.rs mpsc::channel::<()>(1): refresh channel capacity
RefreshCapacity == 1

\* main.rs i64::MAX, the initial oldest_date (largest integer of the checker)
I64_MAX == 2147483647

\* seconds that pass in one Tick
TickSeconds == 300

\* the clock stops here
MaxTime == 300

\* changes other clients make to the remote mailbox
MaxRemoteChanges == 1

\* keys the user presses
MaxUserOps == 2

\* cycles of the sync task
MaxCycles == 1

\* keys the user presses when only navigation is explored
MaxNavKeys == 3

\* keys the user presses when the interactive task runs alone
MaxUserKeys == 3

NoEntry == -1

NoPre == [labels |-> {}, stack |-> <<>>, db_err |-> FALSE]

----------------------------------------------------------------------------
VARIABLES
    \* Local Store (db.rs tables)
    db_labels,          \* table labels: set of label ids
    db_messages,        \* table messages: [Msgs -> row], NoRow when absent
    message_labels,     \* table message_labels: set of <<message id, label id>>
    \* Remote mailbox
    mailbox,            \* ids of the messages that exist remotely
    remote_labels,      \* set of <<message id, label id>>
    remote_changes,     \* changes made by other clients so far
    \* sync.rs SyncState behind the mutex, and the clock
    synced_labels,
    currently_syncing,
    recently_modified,  \* [Msgs -> timestamp], NoEntry when absent
    lock,               \* the task that holds the mutex, "free" when none does
    now,
    \* channels
    priority_ch,        \* sequence of label ids
    refresh_ch,         \* number of pending refresh signals
    \* sync task: position and locals
    s_pc,
    label_ids,          \* this cycle's order
    s_label,            \* index into label_ids
    ids,                \* fetched page
    next_page_token,    \* TRUE when the page carries a token
    s_i,                \* index into ids
    messages,           \* fetched messages queued for upsert
    remote_ids,
    oldest_date,
    has_new_data,
    local_info,         \* <<id, date>> pairs fetched for removal inference
    s_j,                \* index into local_info
    list_failed,        \* history: the labels whose latest list_messages call failed
    \* interactive task
    ui_labels,
    selected_label_index,
    ui_messages,
    selected_message_index,
    undo_stack,
    status_message,
    u_pc,
    thread_messages,
    current_label_id,
    label_to_remove,
    spawned,            \* fire-and-forget remote calls not yet executed
    pre,                \* history: the store's associations and the undo stack as they
                        \* were when the key being handled arrived, and whether a store
                        \* call of the handler has failed; NoPre between keys
    \* bounds of the exploration
    user_budget,        \* keys the user may still press
    keys,               \* the keys handled so far, oldest first
    cycle_budget        \* cycles the sync task may still start, negative for no limit

storeVars == <<db_labels, db_messages, message_labels>>
remoteVars == <<mailbox, remote_labels, remote_changes>>
guardVars == <<synced_labels, currently_syncing, recently_modified, lock>>
syncVars == <<s_pc, label_ids, s_label, ids, next_page_token, s_i, messages,
              remote_ids, oldest_date, has_new_data, local_info, s_j, list_failed>>
uiVars == <<ui_labels, selected_label_index, ui_messages, selected_message_index,
            undo_stack, status_message, u_pc, thread_messages,
            current_label_id, label_to_remove, spawned, pre>>

boundVars == <<user_budget, keys, cycle_budget>>

vars == <<storeVars, remoteVars, guardVars, now, priority_ch, refresh_ch, syncVars, uiVars,
          boundVars>>

----------------------------------------------------------------------------
\* Helpers

Min(a, b) == IF a <= b THEN a ELSE b

Range(s) == {s[k] : k \in 1..Len(s)}

Prefix(s, n) == SubSeq(s, 1, Min(n, Len(s)))

\* ORDER BY <date> DESC over a set of ids
RECURSIVE OrderByDateDesc(_, _)
OrderByDateDesc(S, date) ==
    IF S = {} THEN <<>>
    ELSE LET m == CHOOSE x \in S : \A y \in S : date[x] >= date[y]
         IN  <<m>> \o OrderByDateDesc(S \ {m}, date)

RowDate == [m \in Msgs |-> db_messages[m].internal_date]

----------------------------------------------------------------------------
\* sync.rs SyncState

\* a variant whose window includes the age GRACE_PERIOD itself
is_recently_modified_inclusive(rm, id) == rm[id] # NoEntry /\ now - rm[id] <= GRACE_PERIOD

is_recently_modified(rm, id) == rm[id] # NoEntry /\ now - rm[id] < GRACE_PERIOD

\* a variant that keeps the entries whose age is GRACE_PERIOD itself
cleanup_expired_inclusive(rm) ==
    [m \in Msgs |-> IF rm[m] # NoEntry /\ now - rm[m] <= GRACE_PERIOD THEN rm[m] ELSE NoEntry]

cleanup_expired(rm) ==
    [m \in Msgs |-> IF rm[m] # NoEntry /\ now - rm[m] < GRACE_PERIOD THEN rm[m] ELSE NoEntry]

\* a variant that marks one id of the set only
mark_modified_many_one(rm, S) ==
    [m \in Msgs |-> IF S # {} /\ m = (CHOOSE x \in S : TRUE) THEN now ELSE rm[m]]

mark_modified_many(rm, S) == [m \in Msgs |-> IF m \in S THEN now ELSE rm[m]]

unmark(rm, S) == [m \in Msgs |-> IF m \in S THEN NoEntry ELSE rm[m]]

----------------------------------------------------------------------------
\* db.rs Database

message_exists(id) == db_messages[id] # NoRow

\* a variant that leaves an existing row as it is (INSERT OR IGNORE)
upsert_row_or_ignore(rows, msg) == IF rows[msg.id] = NoRow THEN msg ELSE rows[msg.id]

\* a variant in which a conflicting row is dropped instead of updated
upsert_row_discard(rows, msg) == IF rows[msg.id] = NoRow THEN msg ELSE NoRow

\* a variant that replaces a conflicting row (INSERT OR REPLACE)
upsert_row_replace(rows, msg) == msg

\* INSERT .. ON CONFLICT(id) DO UPDATE SET snippet, is_read, body_plain,
\* body_html: a new row takes every field, an existing row only is_read.
upsert_row(rows, msg) ==
    IF rows[msg.id] = NoRow THEN msg ELSE [rows[msg.id] EXCEPT !.is_read = msg.is_read]

\* for msg in messages { INSERT .. ON CONFLICT(id) DO UPDATE .. }
RECURSIVE upsert_messages_rows(_, _)
upsert_messages_rows(rows, msgs) ==
    IF msgs = <<>> THEN rows
    ELSE upsert_messages_rows([rows EXCEPT ![msgs[1].id] = upsert_row(rows, msgs[1])],
                              SubSeq(msgs, 2, Len(msgs)))

\* INSERT OR IGNORE INTO message_labels for every message of the batch
upsert_messages_labels(ml, msgs, label_id) ==
    ml \cup {<<msgs[k].id, label_id>> : k \in 1..Len(msgs)}

\* DELETE FROM message_labels WHERE message_id = ?; DELETE FROM messages WHERE id = ?
delete_message_rows(rows, S) == [m \in Msgs |-> IF m \in S THEN NoRow ELSE rows[m]]

delete_message_labels(ml, S) == {p \in ml : p[1] \notin S}

remove_label_from_message(ml, id, label_id) == ml \ {<<id, label_id>>}

\* SELECT m.id, m.internal_date .. JOIN message_labels .. WHERE ml.label_id = ?
\* ORDER BY m.internal_date DESC LIMIT ?
get_messages_with_dates_by_label(label_id, limit) ==
    LET S == {m \in Msgs : message_exists(m) /\ <<m, label_id>> \in message_labels}
        o == Prefix(OrderByDateDesc(S, RowDate), limit)
    IN  [k \in 1..Len(o) |-> <<o[k], RowDate[o[k]]>>]

\* SELECT .. FROM messages WHERE thread_id = ? ORDER BY internal_date DESC
get_messages_by_thread(thread_id) ==
    LET S == {m \in Msgs : message_exists(m) /\ db_messages[m].thread_id = thread_id}
        o == OrderByDateDesc(S, RowDate)
    IN  [k \in 1..Len(o) |-> db_messages[o[k]]]

\* SELECT .., MAX(m.internal_date) .. WHERE ml.label_id = ? GROUP BY m.thread_id
\* ORDER BY latest_date DESC: per thread the newest message under the label.
get_messages_by_label(label_id) ==
    LET S == {m \in Msgs : message_exists(m) /\ <<m, label_id>> \in message_labels}
        newest == {m \in S : \A y \in S : db_messages[y].thread_id = db_messages[m].thread_id
                                             => RowDate[y] <= RowDate[m]}
        o == OrderByDateDesc(newest, RowDate)
    IN  [k \in 1..Len(o) |-> db_messages[o[k]]]

\* SELECT .. FROM labels ORDER BY name ASC
RECURSIVE OrderByName(_)
OrderByName(S) ==
    IF S = {} THEN <<>>
    ELSE LET l == CHOOSE x \in S : \A y \in S : NameRank(x) <= NameRank(y)
         IN  <<l>> \o OrderByName(S \ {l})

\* the comparator of labels.sort_by: Less when a is INBOX, Greater when b is,
\* a.name.cmp(&b.name) otherwise
LabelLess(a, b) ==
    IF a = "INBOX" THEN TRUE
    ELSE IF b = "INBOX" THEN FALSE
    ELSE NameRank(a) < NameRank(b)

\* slice::sort_by, a stable sort (insertion sort on a slice this short): each
\* element in turn is moved left past the elements it is less than
RECURSIVE InsertTail(_, _)
InsertTail(sorted, x) ==
    IF sorted = <<>> \/ ~LabelLess(x, sorted[Len(sorted)])
    THEN Append(sorted, x)
    ELSE Append(InsertTail(SubSeq(sorted, 1, Len(sorted) - 1), x), sorted[Len(sorted)])

RECURSIVE sort_by(_)
sort_by(s) ==
    IF s = <<>> THEN <<>>
    ELSE InsertTail(sort_by(SubSeq(s, 1, Len(s) - 1)), s[Len(s)])

\* a variant without the sort that puts INBOX at the top
get_labels_by_name(tbl) == OrderByName(tbl)

\* the rows in the order of the query, then sorted with INBOX at the top
get_labels(tbl) == sort_by(OrderByName(tbl))

----------------------------------------------------------------------------
\* gmail.rs GmailClient

\* list_messages(label, PageSize, None): the newest ids under the label and
\* whether a next-page token came with them.
RemoteIdsUnder(label_id) == {m \in mailbox : <<m, label_id>> \in remote_labels}

list_messages_ids(label_id) == Prefix(OrderByDateDesc(RemoteIdsUnder(label_id), DateOf), PageSize)

list_messages_token(label_id) == Cardinality(RemoteIdsUnder(label_id)) > PageSize

----------------------------------------------------------------------------
\* The sync task (main.rs, the loop spawned after authentication)

\* a variant that infers removals from a truncated page as well
should_remove_any_page == ids # <<>>

\* a variant that infers removals from an empty page as well
should_remove_empty_page == ~next_page_token

\* let should_remove = next_page_token.is_none() && !ids.is_empty()
should_remove == ~next_page_token /\ ids # <<>>

\* the locals of one label pass, as they are before the pass
ResetPass ==
    /\ ids' = <<>>
    /\ next_page_token' = FALSE
    /\ s_i' = 1
    /\ messages' = <<>>
    /\ remote_ids' = {}
    /\ oldest_date' = I64_MAX
    /\ local_info' = <<>>
    /\ s_j' = 1

passVars == <<ids, next_page_token, s_i, messages, remote_ids, oldest_date, local_info, s_j>>

\* a variant that inserts the label at the front without removing it
MoveToFront_keep(order, p) == IF p \in Range(order) THEN <<p>> \o order ELSE order

\* move_to_front: label_ids.remove(pos); label_ids.insert(0, p)
MoveToFront(order, p) ==
    IF p \in Range(order)
    THEN LET pos == CHOOSE k \in 1..Len(order) :
                        order[k] = p /\ \A j \in 1..(k - 1) : order[j] # p
         IN  <<p>> \o SubSeq(order, 1, pos - 1) \o SubSeq(order, pos + 1, Len(order))
    ELSE order

\* while let Ok(p) = priority_rx.try_recv() { priority_label = Some(p) }
PriorityOrder(order, ch) == IF ch = <<>> THEN order ELSE MoveToFront(order, ch[Len(ch)])

\* the process lives until the main loop returns (an error leaves it with ?)
Running == u_pc # "exit"

\* list_labels succeeds: upsert the labels, drain the priority channel and
\* fix this cycle's order.
SyncListLabels ==
    /\ s_pc = "sleep"
    /\ Running
    /\ db_labels' = db_labels \cup Range(RemoteLabelList)
    /\ has_new_data' = TRUE
    /\ label_ids' = PriorityOrder(RemoteLabelList, priority_ch)
    /\ priority_ch' = <<>>
    /\ s_label' = 1
    /\ s_pc' = "label"
    /\ cycle_budget # 0
    /\ cycle_budget' = IF cycle_budget > 0 THEN cycle_budget - 1 ELSE cycle_budget
    /\ UNCHANGED <<db_messages, message_labels, remoteVars, guardVars, now, refresh_ch,
                   passVars, list_failed, uiVars,
                   user_budget, keys>>

\* a variant that empties the priority channel before the listing
SyncListLabelsFail_drain ==
    /\ s_pc = "sleep"
    /\ Running
    /\ has_new_data' = FALSE
    /\ priority_ch' = <<>>
    /\ cycle_budget # 0
    /\ cycle_budget' = IF cycle_budget > 0 THEN cycle_budget - 1 ELSE cycle_budget
    /\ UNCHANGED <<storeVars, remoteVars, guardVars, now, refresh_ch,
                   s_pc, label_ids, list_failed, s_label, passVars, uiVars,
                   user_budget, keys>>

\* list_labels fails: the cycle is over, nothing happens until the next one.
SyncListLabelsFail ==
    /\ s_pc = "sleep"
    /\ Running
    /\ has_new_data' = FALSE
    /\ cycle_budget # 0
    /\ cycle_budget' = IF cycle_budget > 0 THEN cycle_budget - 1 ELSE cycle_budget
    /\ UNCHANGED <<storeVars, remoteVars, guardVars, now, priority_ch, refresh_ch,
                   s_pc, label_ids, list_failed, s_label, passVars, uiVars,
                   user_budget, keys>>

\* top of the per-label pass: currently_syncing and cleanup_expired
SyncBeginLabel ==
    /\ s_pc = "label"
    /\ Running
    /\ currently_syncing' = label_ids[s_label]
    /\ recently_modified' = cleanup_expired(recently_modified)
    /\ s_pc' = "list"
    /\ UNCHANGED <<storeVars, remoteVars, synced_labels, now, priority_ch, refresh_ch,
                   label_ids, list_failed, s_label, has_new_data, passVars, uiVars,
                   boundVars>>
    /\ UNCHANGED lock

SyncListMessages ==
    /\ s_pc = "list"
    /\ Running
    /\ ids' = list_messages_ids(label_ids[s_label])
    /\ next_page_token' = list_messages_token(label_ids[s_label])
    /\ s_i' = 1
    /\ messages' = <<>>
    /\ remote_ids' = {}
    /\ oldest_date' = I64_MAX
    /\ s_pc' = IF list_messages_ids(label_ids[s_label]) = <<>> THEN "upsert" ELSE "check"
    /\ list_failed' = list_failed \ {label_ids[s_label]}
    /\ UNCHANGED <<storeVars, remoteVars, guardVars, now, priority_ch, refresh_ch,
                   label_ids, s_label, has_new_data, local_info, s_j, uiVars,
                   boundVars>>

\* a variant in which a failed list_messages ends the cycle
SyncListMessagesFail_abort ==
    /\ s_pc = "list"
    /\ Running
    /\ s_pc' = "sleep"
    /\ s_label' = 1
    /\ currently_syncing' = "none"
    /\ list_failed' = list_failed \cup {label_ids[s_label]}
    /\ UNCHANGED <<storeVars, remoteVars, synced_labels, recently_modified, now, priority_ch,
                   refresh_ch, label_ids, has_new_data, passVars, uiVars,
                   boundVars>>
    /\ UNCHANGED lock

\* list_messages fails: the body of the if-let is skipped
SyncListMessagesFail ==
    /\ s_pc = "list"
    /\ Running
    /\ s_pc' = "mark"
    /\ list_failed' = list_failed \cup {label_ids[s_label]}
    /\ UNCHANGED <<storeVars, remoteVars, guardVars, now, priority_ch, refresh_ch,
                   label_ids, s_label, has_new_data, passVars, uiVars,
                   boundVars>>

\* position after the page id s_i has been dealt with
AfterPageId == IF s_i < Len(ids) THEN "check" ELSE "upsert"

\* the guard is read for the page id; a guarded id is skipped entirely
SyncCheckModified ==
    /\ s_pc = "check"
    /\ Running
    /\ IF is_recently_modified(recently_modified, ids[s_i])
       THEN /\ s_i' = s_i + 1
            /\ s_pc' = AfterPageId
            /\ UNCHANGED remote_ids
       ELSE /\ remote_ids' = remote_ids \cup {ids[s_i]}
            /\ s_pc' = "exists"
            /\ UNCHANGED s_i
    /\ UNCHANGED <<storeVars, remoteVars, guardVars, now, priority_ch, refresh_ch,
                   label_ids, list_failed, s_label, has_new_data, ids, next_page_token, messages,
                   oldest_date, local_info, s_j, uiVars,
                   boundVars>>

\* a variant that fetches every unguarded page id
SyncMessageExists_always_fetch ==
    /\ s_pc = "exists"
    /\ Running
    /\ s_pc' = "fetch"
    /\ UNCHANGED <<storeVars, remoteVars, guardVars, now, priority_ch, refresh_ch,
                   label_ids, list_failed, s_label, has_new_data, passVars, uiVars,
                   boundVars>>

SyncMessageExists ==
    /\ s_pc = "exists"
    /\ Running
    /\ s_pc' = IF message_exists(ids[s_i]) THEN "date" ELSE "fetch"
    /\ UNCHANGED <<storeVars, remoteVars, guardVars, now, priority_ch, refresh_ch,
                   label_ids, list_failed, s_label, has_new_data, passVars, uiVars,
                   boundVars>>

\* get_message succeeds for an id without a local row
SyncGetMessage ==
    /\ s_pc = "fetch"
    /\ Running
    /\ ids[s_i] \in mailbox
    /\ oldest_date' = Min(oldest_date, RemoteMessage(ids[s_i]).internal_date)
    /\ messages' = Append(messages, RemoteMessage(ids[s_i]))
    /\ s_i' = s_i + 1
    /\ s_pc' = AfterPageId
    /\ UNCHANGED <<storeVars, remoteVars, guardVars, now, priority_ch, refresh_ch,
                   label_ids, list_failed, s_label, has_new_data, ids, next_page_token, remote_ids,
                   local_info, s_j, uiVars,
                   boundVars>>

SyncGetMessageFail ==
    /\ s_pc = "fetch"
    /\ Running
    /\ s_i' = s_i + 1
    /\ s_pc' = AfterPageId
    /\ UNCHANGED <<storeVars, remoteVars, guardVars, now, priority_ch, refresh_ch,
                   label_ids, list_failed, s_label, has_new_data, ids, next_page_token, messages,
                   remote_ids, oldest_date, local_info, s_j, uiVars,
                   boundVars>>

\* get_message_date for an id that had a row: Some(date) lowers the watermark
SyncGetMessageDate ==
    /\ s_pc = "date"
    /\ Running
    /\ oldest_date' = IF message_exists(ids[s_i])
                      THEN Min(oldest_date, RowDate[ids[s_i]])
                      ELSE oldest_date
    /\ s_i' = s_i + 1
    /\ s_pc' = AfterPageId
    /\ UNCHANGED <<storeVars, remoteVars, guardVars, now, priority_ch, refresh_ch,
                   label_ids, list_failed, s_label, has_new_data, ids, next_page_token, messages,
                   remote_ids, local_info, s_j, uiVars,
                   boundVars>>

\* a variant that upserts without raising has_new_data
SyncUpsert_silent ==
    /\ s_pc = "upsert"
    /\ Running
    /\ db_messages' = upsert_messages_rows(db_messages, messages)
    /\ message_labels' = upsert_messages_labels(message_labels, messages, label_ids[s_label])
    /\ has_new_data' = has_new_data
    /\ s_pc' = IF should_remove THEN "local" ELSE "mark"
    /\ UNCHANGED <<db_labels, remoteVars, guardVars, now, priority_ch, refresh_ch,
                   label_ids, list_failed, s_label, passVars, uiVars,
                   boundVars>>

\* upsert_messages(&messages, label_id), then the should_remove branch
SyncUpsert ==
    /\ s_pc = "upsert"
    /\ Running
    /\ db_messages' = upsert_messages_rows(db_messages, messages)
    /\ message_labels' = upsert_messages_labels(message_labels, messages, label_ids[s_label])
    /\ has_new_data' = (has_new_data \/ messages # <<>>)
    /\ s_pc' = IF should_remove THEN "local" ELSE "mark"
    /\ UNCHANGED <<db_labels, remoteVars, guardVars, now, priority_ch, refresh_ch,
                   label_ids, list_failed, s_label, passVars, uiVars,
                   boundVars>>

SyncGetLocalInfo ==
    /\ s_pc = "local"
    /\ Running
    /\ local_info' = get_messages_with_dates_by_label(label_ids[s_label], LocalLimit)
    /\ s_j' = 1
    /\ s_pc' = IF get_messages_with_dates_by_label(label_ids[s_label], LocalLimit) = <<>>
               THEN "mark" ELSE "rcheck"
    /\ UNCHANGED <<storeVars, remoteVars, guardVars, now, priority_ch, refresh_ch,
                   label_ids, list_failed, s_label, has_new_data, ids, next_page_token, s_i, messages,
                   remote_ids, oldest_date, uiVars,
                   boundVars>>

AfterLocalId == IF s_j < Len(local_info) THEN "rcheck" ELSE "mark"

\* a variant without the date window
InWindowAndUnseen_no_date(info) == info[1] \notin remote_ids

\* local_date >= oldest_date && !remote_ids.contains(&local_id)
InWindowAndUnseen(info) == info[2] >= oldest_date /\ info[1] \notin remote_ids

\* the guard is read for the local id and the removal is decided
SyncCheckLocal ==
    /\ s_pc = "rcheck"
    /\ Running
    /\ IF ~is_recently_modified(recently_modified, local_info[s_j][1])
          /\ InWindowAndUnseen(local_info[s_j])
       THEN /\ s_pc' = "remove"
            /\ UNCHANGED s_j
       ELSE /\ s_j' = s_j + 1
            /\ s_pc' = AfterLocalId
    /\ UNCHANGED <<storeVars, remoteVars, guardVars, now, priority_ch, refresh_ch,
                   label_ids, list_failed, s_label, has_new_data, ids, next_page_token, s_i, messages,
                   remote_ids, oldest_date, local_info, uiVars,
                   boundVars>>

\* remove_label_from_message(&local_id, label_id)
SyncRemoveLabel ==
    /\ s_pc = "remove"
    /\ Running
    /\ message_labels' = remove_label_from_message(message_labels, local_info[s_j][1],
                                                   label_ids[s_label])
    /\ has_new_data' = TRUE
    /\ s_j' = s_j + 1
    /\ s_pc' = AfterLocalId
    /\ UNCHANGED <<db_labels, db_messages, remoteVars, guardVars, now, priority_ch,
                   refresh_ch, label_ids, list_failed, s_label, ids, next_page_token, s_i, messages,
                   remote_ids, oldest_date, local_info, uiVars,
                   boundVars>>

AfterLabel == IF s_label < Len(label_ids) THEN "label" ELSE "sleep"

\* a variant that keeps only the label just synced in the set
SyncMarkSynced_replace ==
    /\ s_pc = "mark"
    /\ Running
    /\ synced_labels' = {label_ids[s_label]}
    /\ currently_syncing' = "none"
    /\ ResetPass
    /\ IF has_new_data
       THEN /\ s_pc' = "send"
            /\ UNCHANGED s_label
       ELSE /\ s_pc' = AfterLabel
            /\ s_label' = IF s_label < Len(label_ids) THEN s_label + 1 ELSE 1
    /\ UNCHANGED <<storeVars, remoteVars, recently_modified, now, priority_ch, refresh_ch,
                   label_ids, list_failed, has_new_data, uiVars,
                   boundVars>>
    /\ UNCHANGED lock

\* the label is marked synced; the pass's locals go out of scope
SyncMarkSynced ==
    /\ s_pc = "mark"
    /\ Running
    /\ synced_labels' = synced_labels \cup {label_ids[s_label]}
    /\ currently_syncing' = "none"
    /\ ResetPass
    /\ IF has_new_data
       THEN /\ s_pc' = "send"
            /\ UNCHANGED s_label
       ELSE /\ s_pc' = AfterLabel
            /\ s_label' = IF s_label < Len(label_ids) THEN s_label + 1 ELSE 1
    /\ UNCHANGED <<storeVars, remoteVars, recently_modified, now, priority_ch, refresh_ch,
                   label_ids, list_failed, has_new_data, uiVars,
                   boundVars>>
    /\ UNCHANGED lock

\* a variant that sends without waiting for room in the channel
SyncSendRefresh_no_wait ==
    /\ s_pc = "send"
    /\ Running
    /\ refresh_ch' = refresh_ch + 1
    /\ has_new_data' = FALSE
    /\ s_pc' = AfterLabel
    /\ s_label' = IF s_label < Len(label_ids) THEN s_label + 1 ELSE 1
    /\ UNCHANGED <<storeVars, remoteVars, guardVars, now, priority_ch, label_ids, list_failed,
                   passVars, uiVars,
                   boundVars>>

\* sync_refresh_tx.send(()).await waits for room in the channel
SyncSendRefresh ==
    /\ s_pc = "send"
    /\ Running
    /\ refresh_ch < RefreshCapacity
    /\ refresh_ch' = refresh_ch + 1
    /\ has_new_data' = FALSE
    /\ s_pc' = AfterLabel
    /\ s_label' = IF s_label < Len(label_ids) THEN s_label + 1 ELSE 1
    /\ UNCHANGED <<storeVars, remoteVars, guardVars, now, priority_ch, label_ids, list_failed,
                   passVars, uiVars,
                   boundVars>>

SyncOk ==
    \/ SyncListLabels
    \/ SyncBeginLabel
    \/ SyncListMessages
    \/ SyncCheckModified
    \/ SyncMessageExists
    \/ SyncGetMessage
    \/ SyncGetMessageDate
    \/ SyncUpsert
    \/ SyncGetLocalInfo
    \/ SyncCheckLocal
    \/ SyncRemoveLabel
    \/ SyncMarkSynced
    \/ SyncSendRefresh

SyncFail ==
    \/ SyncListLabelsFail
    \/ SyncListMessagesFail
    \/ SyncGetMessageFail

SyncNext == SyncOk \/ SyncFail

----------------------------------------------------------------------------
\* The interactive task (main.rs, the key handlers of UIMode::Browsing)

\* ui_state.labels.get(ui_state.selected_label_index)
HasCurrentLabel == selected_label_index < Len(ui_labels)

CurrentLabel == IF HasCurrentLabel THEN ui_labels[selected_label_index + 1] ELSE "none"

\* .map(|l| l.id.clone()).unwrap_or_else(|| "INBOX".to_string())
CurrentLabelOrInbox == IF HasCurrentLabel THEN ui_labels[selected_label_index + 1] ELSE "INBOX"

\* ui_state.messages.get(ui_state.selected_message_index)
HasSelectedMessage == selected_message_index < Len(ui_messages)

SelectedMessage == ui_messages[selected_message_index + 1]

\* Vec::remove and Vec::insert at a 0-based index
RemoveAt(s, i) == SubSeq(s, 1, i) \o SubSeq(s, i + 2, Len(s))

InsertAt(s, i, x) == SubSeq(s, 1, i) \o <<x>> \o SubSeq(s, i + 1, Len(s))

IdsOf(msgs) == {msgs[k].id : k \in 1..Len(msgs)}

\* a variant that takes no label for a category label
IsCategory_never(label_id) == FALSE

\* current_label_id.starts_with("CATEGORY_")
IsCategory(label_id) == label_id = "CATEGORY_SOCIAL"

\* a variant that leaves the index where it was
ClampAfterRemove_none(list, sel) == sel

\* the selection index after the selected entry has been removed
ClampAfterRemove(list, sel) == IF sel >= Len(list) /\ list # <<>> THEN Len(list) - 1 ELSE sel

\* messages.first().cloned().unwrap_or_default()
Representative(msgs) == IF msgs # <<>> THEN msgs[1] ELSE NoRow

\* a variant that makes room by dropping the oldest queued value
try_send_overwrite(ch, label_id) ==
    IF Len(ch) < PriorityCapacity THEN Append(ch, label_id) ELSE Append(Tail(ch), label_id)

\* priority_tx.try_send: dropped when the channel is full
try_send(ch, label_id) == IF Len(ch) < PriorityCapacity THEN Append(ch, label_id) ELSE ch

\* event::read() delivers a key: one more key of the session is handled
KeyHandled(k) ==
    /\ user_budget > 0
    /\ user_budget' = user_budget - 1
    /\ keys' = Append(keys, k)

\* top of the main loop: drain refresh_rx, then reload labels and messages once
UiRefresh ==
    /\ u_pc = "idle"
    /\ refresh_ch > 0
    /\ refresh_ch' = 0
    /\ \E labels \in {get_labels(db_labels)} :
          /\ ui_labels' = labels
          /\ IF selected_label_index < Len(labels)
             THEN \E new_messages \in {get_messages_by_label(labels[selected_label_index + 1])} :
                     /\ ui_messages' = new_messages
                     /\ selected_message_index' =
                           IF new_messages # <<>>
                           THEN (IF selected_message_index >= Len(new_messages)
                                 THEN Len(new_messages) - 1 ELSE selected_message_index)
                           ELSE 0
             ELSE UNCHANGED <<ui_messages, selected_message_index>>
    /\ UNCHANGED <<storeVars, remoteVars, guardVars, now, priority_ch, syncVars,
                   selected_label_index, undo_stack, status_message, u_pc,
                   thread_messages, current_label_id, label_to_remove, spawned, pre,
                   boundVars>>

\* move_down / move_up in the Labels panel: select the label, load its
\* messages and tell the sync task
UiSelectLabel(d) ==
    /\ u_pc = "idle"
    /\ IF d = 1 THEN selected_label_index + 1 < Len(ui_labels) ELSE selected_label_index > 0
    /\ selected_label_index' = selected_label_index + d
    /\ ui_messages' = get_messages_by_label(ui_labels[selected_label_index + d + 1])
    /\ selected_message_index' = 0
    /\ priority_ch' = try_send(priority_ch, ui_labels[selected_label_index + d + 1])
    /\ status_message' = "none"
    /\ KeyHandled("select")
    /\ UNCHANGED <<storeVars, remoteVars, guardVars, now, refresh_ch, syncVars, ui_labels,
                   undo_stack, u_pc, thread_messages, current_label_id,
                   label_to_remove, spawned, pre,
                   cycle_budget>>

\* move_down / move_up in the Messages panel
UiMoveMessage(d) ==
    /\ u_pc = "idle"
    /\ IF d = 1 THEN selected_message_index + 1 < Len(ui_messages) ELSE selected_message_index > 0
    /\ selected_message_index' = selected_message_index + d
    /\ status_message' = "none"
    /\ KeyHandled("move")
    /\ UNCHANGED <<storeVars, remoteVars, guardVars, now, priority_ch, refresh_ch, syncVars,
                   ui_labels, selected_label_index, ui_messages, undo_stack,
                   u_pc, thread_messages, current_label_id, label_to_remove, spawned, pre,
                   cycle_budget>>

----------------------------------------------------------------------------
\* Delete (main.rs, keybindings.delete)

\* resolve the thread from the store, guard its ids, push the undo action
UiDeleteBegin ==
    /\ u_pc = "idle"
    /\ HasSelectedMessage
    /\ LET tm == get_messages_by_thread(SelectedMessage.thread_id)
       IN  /\ thread_messages' = tm
           /\ recently_modified' = mark_modified_many(recently_modified, IdsOf(tm))
           /\ undo_stack' = Append(undo_stack,
                 [kind |-> "Delete", messages |-> tm, label_id |-> CurrentLabelOrInbox,
                  original_index |-> selected_message_index])
    /\ current_label_id' = CurrentLabelOrInbox
    /\ status_message' = "none"
    /\ u_pc' = "del_local"
    /\ KeyHandled("delete")
    /\ pre' = [labels |-> message_labels, stack |-> undo_stack, db_err |-> FALSE]
    /\ UNCHANGED <<storeVars, remoteVars, synced_labels, currently_syncing, now, priority_ch,
                   refresh_ch, syncVars, ui_labels, selected_label_index, ui_messages,
                   selected_message_index, label_to_remove, spawned,
                   cycle_budget>>
    /\ UNCHANGED lock

\* for id in &message_ids { db.delete_message(id) }
UiDeleteLocal ==
    /\ u_pc = "del_local"
    /\ db_messages' = delete_message_rows(db_messages, IdsOf(thread_messages))
    /\ message_labels' = delete_message_labels(message_labels, IdsOf(thread_messages))
    /\ u_pc' = "del_remote"
    /\ UNCHANGED <<db_labels, remoteVars, guardVars, now, priority_ch, refresh_ch, syncVars,
                   ui_labels, selected_label_index, ui_messages, selected_message_index,
                   undo_stack, status_message, thread_messages,
                   current_label_id, label_to_remove, spawned, pre,
                   boundVars>>

\* db.delete_message fails for some of the ids (F), for some of those after
\* its first statement has deleted the associations (H): the error is printed
\* and the handler goes on
UiDeleteLocalFail ==
    /\ u_pc = "del_local"
    /\ \E F \in SUBSET IdsOf(thread_messages) : \E H \in SUBSET F :
          /\ F # {}
          /\ db_messages' = delete_message_rows(db_messages, IdsOf(thread_messages) \ F)
          /\ message_labels' = delete_message_labels(message_labels,
                                                     (IdsOf(thread_messages) \ F) \cup H)
    /\ pre' = [pre EXCEPT !.db_err = TRUE]
    /\ u_pc' = "del_remote"
    /\ UNCHANGED <<db_labels, remoteVars, guardVars, now, priority_ch, refresh_ch, syncVars,
                   ui_labels, selected_label_index, ui_messages, selected_message_index,
                   undo_stack, status_message, thread_messages,
                   current_label_id, label_to_remove, spawned,
                   boundVars>>

\* db.get_messages_by_thread(&thread_id).await? fails: main returns the error
UiDeleteResolveFail ==
    /\ u_pc = "idle"
    /\ HasSelectedMessage
    /\ status_message' = "none"
    /\ u_pc' = "exit"
    /\ KeyHandled("delete")
    /\ pre' = [labels |-> message_labels, stack |-> undo_stack, db_err |-> TRUE]
    /\ UNCHANGED <<storeVars, remoteVars, guardVars, now, priority_ch, refresh_ch, syncVars,
                   ui_labels, selected_label_index, ui_messages, selected_message_index,
                   undo_stack, thread_messages, current_label_id, label_to_remove, spawned,
                   cycle_budget>>

\* a variant that leaves the list as it is
UiListAfterRemoval_keep ==
    /\ ui_messages' = ui_messages
    /\ selected_message_index' = selected_message_index

\* the entry is taken off the list and the selection clamped
UiListAfterRemoval ==
    /\ ui_messages' = RemoveAt(ui_messages, selected_message_index)
    /\ selected_message_index' =
          ClampAfterRemove(RemoveAt(ui_messages, selected_message_index), selected_message_index)

\* trash_messages succeeds: the messages leave the remote mailbox
UiDeleteRemoteOk ==
    /\ u_pc = "del_remote"
    /\ mailbox' = mailbox \ IdsOf(thread_messages)
    /\ status_message' = "Deleted successfully"
    /\ UiListAfterRemoval
    /\ thread_messages' = <<>>
    /\ current_label_id' = "none"
    /\ u_pc' = "idle"
    /\ pre' = NoPre
    /\ UNCHANGED <<storeVars, remote_labels, remote_changes, guardVars, now, priority_ch,
                   refresh_ch, syncVars, ui_labels, selected_label_index, 
                   undo_stack, label_to_remove, spawned,
                   boundVars>>

UiDeleteRemoteFail ==
    /\ u_pc = "del_remote"
    /\ status_message' = "Delete failed"
    /\ u_pc' = "del_restore"
    /\ UNCHANGED <<storeVars, remoteVars, guardVars, now, priority_ch, refresh_ch, syncVars,
                   ui_labels, selected_label_index, ui_messages, selected_message_index,
                   undo_stack, thread_messages, current_label_id,
                   label_to_remove, spawned, pre,
                   boundVars>>

\* db.upsert_messages(&thread_messages, &current_label_id)
UiDeleteRestore ==
    /\ u_pc = "del_restore"
    /\ db_messages' = upsert_messages_rows(db_messages, thread_messages)
    /\ message_labels' = upsert_messages_labels(message_labels, thread_messages, current_label_id)
    /\ u_pc' = "del_unguard"
    /\ UNCHANGED <<db_labels, remoteVars, guardVars, now, priority_ch, refresh_ch, syncVars,
                   ui_labels, selected_label_index, ui_messages, selected_message_index,
                   undo_stack, status_message, thread_messages,
                   current_label_id, label_to_remove, spawned, pre,
                   boundVars>>

\* state.recently_modified.remove(id) for every id
UiDeleteUnguard ==
    /\ u_pc = "del_unguard"
    /\ recently_modified' = unmark(recently_modified, IdsOf(thread_messages))
    /\ thread_messages' = <<>>
    /\ current_label_id' = "none"
    /\ u_pc' = "idle"
    /\ pre' = NoPre
    /\ UNCHANGED <<storeVars, remoteVars, synced_labels, currently_syncing, now, priority_ch,
                   refresh_ch, syncVars, ui_labels, selected_label_index, ui_messages,
                   selected_message_index, undo_stack, status_message,
                   label_to_remove, spawned,
                   boundVars>>
    /\ UNCHANGED lock

----------------------------------------------------------------------------
\* Archive (main.rs, keybindings.archive)

\* INSERT OR IGNORE INTO message_labels (message_id, label_id)
add_label_to_message(ml, S, label_id) == ml \cup {<<m, label_id>> : m \in S}

\* gmail.rs remove_label_from_messages: one batchModify for all the ids
remove_label_from_messages(rl, S, label_id) == rl \ {<<m, label_id>> : m \in S}

\* gmail.rs archive_messages: batchModify removing INBOX
archive_messages(rl, S) == rl \ {<<m, "INBOX">> : m \in S}

\* a variant that stops after the first id
RemoveLabelFromEach_first_only(ml, S, label_id) ==
    IF S = {} THEN ml ELSE remove_label_from_message(ml, CHOOSE x \in S : TRUE, label_id)

\* for id in &message_ids { db.remove_label_from_message(id, &label_to_remove) }
RECURSIVE RemoveLabelFromEach(_, _, _)
RemoveLabelFromEach(ml, S, label_id) ==
    IF S = {} THEN ml
    ELSE LET id == CHOOSE x \in S : TRUE
         IN  RemoveLabelFromEach(remove_label_from_message(ml, id, label_id), S \ {id}, label_id)

\* resolve the thread from the store, guard its ids, choose the label to remove
UiArchiveBegin ==
    /\ u_pc = "idle"
    /\ HasSelectedMessage
    /\ LET tm == get_messages_by_thread(SelectedMessage.thread_id)
       IN  /\ thread_messages' = tm
           /\ recently_modified' = mark_modified_many(recently_modified, IdsOf(tm))
    /\ current_label_id' = CurrentLabelOrInbox
    /\ label_to_remove' = IF IsCategory(CurrentLabelOrInbox) THEN CurrentLabelOrInbox ELSE "INBOX"
    /\ status_message' = "none"
    /\ u_pc' = "arc_local"
    /\ KeyHandled("archive")
    /\ pre' = [labels |-> message_labels, stack |-> undo_stack, db_err |-> FALSE]
    /\ UNCHANGED <<storeVars, remoteVars, synced_labels, currently_syncing, now, priority_ch,
                   refresh_ch, syncVars, ui_labels, selected_label_index, ui_messages,
                   selected_message_index, undo_stack, spawned,
                   cycle_budget>>
    /\ UNCHANGED lock

\* the label leaves every message of the thread in the store
UiArchiveLocal ==
    /\ u_pc = "arc_local"
    /\ message_labels' = RemoveLabelFromEach(message_labels, IdsOf(thread_messages),
                                             label_to_remove)
    /\ u_pc' = "arc_remote"
    /\ UNCHANGED <<db_labels, db_messages, remoteVars, guardVars, now, priority_ch, refresh_ch,
                   syncVars, ui_labels, selected_label_index, ui_messages,
                   selected_message_index, undo_stack, status_message,
                   thread_messages, current_label_id, label_to_remove, spawned, pre,
                   boundVars>>

\* db.remove_label_from_message fails for some of the ids (F): the error is
\* printed and the handler goes on
UiArchiveLocalFail ==
    /\ u_pc = "arc_local"
    /\ \E F \in SUBSET IdsOf(thread_messages) :
          /\ F # {}
          /\ message_labels' = RemoveLabelFromEach(message_labels,
                                                   IdsOf(thread_messages) \ F, label_to_remove)
    /\ pre' = [pre EXCEPT !.db_err = TRUE]
    /\ u_pc' = "arc_remote"
    /\ UNCHANGED <<db_labels, db_messages, remoteVars, guardVars, now, priority_ch, refresh_ch,
                   syncVars, ui_labels, selected_label_index, ui_messages,
                   selected_message_index, undo_stack, status_message,
                   thread_messages, current_label_id, label_to_remove, spawned,
                   boundVars>>

\* db.get_messages_by_thread(&thread_id).await? fails: main returns the error
UiArchiveResolveFail ==
    /\ u_pc = "idle"
    /\ HasSelectedMessage
    /\ status_message' = "none"
    /\ u_pc' = "exit"
    /\ KeyHandled("archive")
    /\ pre' = [labels |-> message_labels, stack |-> undo_stack, db_err |-> TRUE]
    /\ UNCHANGED <<storeVars, remoteVars, guardVars, now, priority_ch, refresh_ch, syncVars,
                   ui_labels, selected_label_index, ui_messages, selected_message_index,
                   undo_stack, thread_messages, current_label_id, label_to_remove, spawned,
                   cycle_budget>>

\* remove_label_from_messages(ids, current) for a category, archive_messages(ids)
\* (remove INBOX) otherwise; then the undo action is pushed and the list updated
UiArchiveRemoteOk ==
    /\ u_pc = "arc_remote"
    /\ remote_labels' = IF IsCategory(current_label_id)
                        THEN remove_label_from_messages(remote_labels, IdsOf(thread_messages),
                                                        current_label_id)
                        ELSE archive_messages(remote_labels, IdsOf(thread_messages))
    /\ status_message' = "Archived successfully"
    /\ undo_stack' = Append(undo_stack,
          [kind |-> "Archive", messages |-> thread_messages, label_id |-> label_to_remove,
           original_index |-> selected_message_index])
    /\ UiListAfterRemoval
    /\ thread_messages' = <<>>
    /\ current_label_id' = "none"
    /\ label_to_remove' = "none"
    /\ u_pc' = "idle"
    /\ pre' = NoPre
    /\ UNCHANGED <<storeVars, mailbox, remote_changes, guardVars, now, priority_ch,
                   refresh_ch, syncVars, ui_labels, selected_label_index, 
                   spawned,
                   boundVars>>

UiArchiveRemoteFail ==
    /\ u_pc = "arc_remote"
    /\ status_message' = "Archive failed"
    /\ u_pc' = "arc_restore"
    /\ UNCHANGED <<storeVars, remoteVars, guardVars, now, priority_ch, refresh_ch, syncVars,
                   ui_labels, selected_label_index, ui_messages, selected_message_index,
                   undo_stack, thread_messages, current_label_id,
                   label_to_remove, spawned, pre,
                   boundVars>>

\* for id in &message_ids { db.add_label_to_message(id, &label_to_remove) }
UiArchiveRestore ==
    /\ u_pc = "arc_restore"
    /\ message_labels' = add_label_to_message(message_labels, IdsOf(thread_messages),
                                              label_to_remove)
    /\ u_pc' = "arc_unguard"
    /\ UNCHANGED <<db_labels, db_messages, remoteVars, guardVars, now, priority_ch, refresh_ch,
                   syncVars, ui_labels, selected_label_index, ui_messages,
                   selected_message_index, undo_stack, status_message,
                   thread_messages, current_label_id, label_to_remove, spawned, pre,
                   boundVars>>

UiArchiveUnguard ==
    /\ u_pc = "arc_unguard"
    /\ recently_modified' = unmark(recently_modified, IdsOf(thread_messages))
    /\ thread_messages' = <<>>
    /\ current_label_id' = "none"
    /\ label_to_remove' = "none"
    /\ u_pc' = "idle"
    /\ pre' = NoPre
    /\ UNCHANGED <<storeVars, remoteVars, synced_labels, currently_syncing, now, priority_ch,
                   refresh_ch, syncVars, ui_labels, selected_label_index, ui_messages,
                   selected_message_index, undo_stack, status_message,
                   spawned,
                   boundVars>>
    /\ UNCHANGED lock

----------------------------------------------------------------------------
\* Undo (main.rs, keybindings.undo)

\* a variant that takes the oldest action
Top_oldest(stack) == stack[1]

\* Vec::pop: the action returned, and the stack that is left
Top(stack) == stack[Len(stack)]

Pop(stack) == SubSeq(stack, 1, Len(stack) - 1)

\* a variant that restores every archive with unarchive
UndoTasks_unarchive(action) ==
    {[op |-> IF action.kind = "Delete" THEN "untrash" ELSE "unarchive",
      id |-> m,
      label_id |-> IF action.kind = "Delete" THEN "none" ELSE action.label_id]
        : m \in IdsOf(action.messages)}

\* the remote calls an undo spawns without awaiting them
UndoTasks(action) ==
    {[op |-> IF action.kind = "Delete" THEN "untrash"
             ELSE IF action.label_id = "INBOX" THEN "unarchive" ELSE "add_label",
      id |-> m,
      label_id |-> IF action.kind = "Delete" THEN "none" ELSE action.label_id]
        : m \in IdsOf(action.messages)}

\* the representative goes back into the list at min(original_index, len)
UiListAfterInsert(action) ==
    LET insert_index == Min(action.original_index, Len(ui_messages))
    IN  /\ ui_messages' = InsertAt(ui_messages, insert_index, Representative(action.messages))
        /\ selected_message_index' = insert_index

\* UndoableAction::Delete: db.upsert_messages(&messages, &label_id)
UiUndoDelete ==
    /\ u_pc = "idle"
    /\ undo_stack # <<>>
    /\ Top(undo_stack).kind = "Delete"
    /\ undo_stack' = Pop(undo_stack)
    /\ UiListAfterInsert(Top(undo_stack))
    /\ db_messages' = upsert_messages_rows(db_messages, Top(undo_stack).messages)
    /\ message_labels' = upsert_messages_labels(message_labels, Top(undo_stack).messages,
                                                Top(undo_stack).label_id)
    /\ spawned' = spawned \cup UndoTasks(Top(undo_stack))
    /\ status_message' = "Undone: delete"
    /\ KeyHandled("undo")
    /\ UNCHANGED pre
    /\ UNCHANGED <<db_labels, remoteVars, guardVars, now, priority_ch, refresh_ch, syncVars,
                   ui_labels, selected_label_index, u_pc, thread_messages,
                   current_label_id, label_to_remove,
                   cycle_budget>>

\* a variant that takes the guard off the ids it restores
UiUndoArchive_unguard ==
    /\ u_pc = "idle"
    /\ undo_stack # <<>>
    /\ Top(undo_stack).kind = "Archive"
    /\ undo_stack' = Pop(undo_stack)
    /\ IF HasCurrentLabel /\ CurrentLabel = Top(undo_stack).label_id
       THEN UiListAfterInsert(Top(undo_stack))
       ELSE UNCHANGED <<ui_messages, selected_message_index>>
    /\ message_labels' = add_label_to_message(message_labels, IdsOf(Top(undo_stack).messages),
                                              Top(undo_stack).label_id)
    /\ spawned' = spawned \cup UndoTasks(Top(undo_stack))
    /\ status_message' = "Undone: archive"
    /\ recently_modified' = unmark(recently_modified, IdsOf(Top(undo_stack).messages))
    /\ KeyHandled("undo")
    /\ UNCHANGED pre
    /\ UNCHANGED <<db_labels, db_messages, remoteVars, synced_labels, currently_syncing, now, priority_ch, refresh_ch,
                   syncVars, ui_labels, selected_label_index, u_pc,
                   thread_messages, current_label_id, label_to_remove,
                   cycle_budget>>
    /\ UNCHANGED lock

\* UndoableAction::Archive: db.add_label_to_message(&message.id, &label_id)
UiUndoArchive ==
    /\ u_pc = "idle"
    /\ undo_stack # <<>>
    /\ Top(undo_stack).kind = "Archive"
    /\ undo_stack' = Pop(undo_stack)
    /\ IF HasCurrentLabel /\ CurrentLabel = Top(undo_stack).label_id
       THEN UiListAfterInsert(Top(undo_stack))
       ELSE UNCHANGED <<ui_messages, selected_message_index>>
    /\ message_labels' = add_label_to_message(message_labels, IdsOf(Top(undo_stack).messages),
                                              Top(undo_stack).label_id)
    /\ spawned' = spawned \cup UndoTasks(Top(undo_stack))
    /\ status_message' = "Undone: archive"
    /\ KeyHandled("undo")
    /\ UNCHANGED pre
    /\ UNCHANGED <<db_labels, db_messages, remoteVars, guardVars, now, priority_ch, refresh_ch,
                   syncVars, ui_labels, selected_label_index, u_pc,
                   thread_messages, current_label_id, label_to_remove,
                   cycle_budget>>

\* if let Some(action) = undo_stack.pop() finds the stack empty: nothing is
\* done, the status message is not even cleared
UiUndoEmpty ==
    /\ u_pc = "idle"
    /\ undo_stack = <<>>
    /\ KeyHandled("undo")
    /\ UNCHANGED pre
    /\ UNCHANGED <<storeVars, remoteVars, guardVars, now, priority_ch, refresh_ch, syncVars,
                   ui_labels, selected_label_index, ui_messages, selected_message_index,
                   undo_stack, status_message, u_pc, thread_messages,
                   current_label_id, label_to_remove, spawned,
                   cycle_budget>>

\* a spawned remote call is executed and succeeds
RemoteTaskOk(t) ==
    /\ t \in spawned
    /\ Running
    /\ spawned' = spawned \ {t}
    /\ IF t.op = "untrash"
       THEN /\ mailbox' = mailbox \cup {t.id}
            /\ UNCHANGED remote_labels
       ELSE /\ t.id \in mailbox
            /\ remote_labels' = remote_labels \cup
                  {<<t.id, IF t.op = "unarchive" THEN "INBOX" ELSE t.label_id>>}
            /\ UNCHANGED mailbox
    /\ UNCHANGED pre
    /\ UNCHANGED <<storeVars, remote_changes, guardVars, now, priority_ch, refresh_ch, syncVars,
                   ui_labels, selected_label_index, ui_messages, selected_message_index,
                   undo_stack, status_message, u_pc, thread_messages,
                   current_label_id, label_to_remove,
                   boundVars>>

\* a spawned remote call fails; its result is dropped (let _ =)
RemoteTaskFail(t) ==
    /\ t \in spawned
    /\ Running
    /\ spawned' = spawned \ {t}
    /\ UNCHANGED pre
    /\ UNCHANGED <<storeVars, remoteVars, guardVars, now, priority_ch, refresh_ch, syncVars,
                   ui_labels, selected_label_index, ui_messages, selected_message_index,
                   undo_stack, status_message, u_pc, thread_messages,
                   current_label_id, label_to_remove,
                   boundVars>>

----------------------------------------------------------------------------
\* Environment: other clients of the mailbox, and the clock

RemoteChange(m, l) ==
    /\ remote_changes < MaxRemoteChanges
    /\ m \in mailbox
    /\ remote_changes' = remote_changes + 1
    /\ remote_labels' = IF <<m, l>> \in remote_labels
                        THEN remote_labels \ {<<m, l>>}
                        ELSE remote_labels \cup {<<m, l>>}
    /\ UNCHANGED <<storeVars, mailbox, guardVars, now, priority_ch, refresh_ch, syncVars,
                   uiVars,
                   boundVars>>

Tick ==
    /\ now + TickSeconds <= MaxTime
    /\ now' = now + TickSeconds
    /\ UNCHANGED <<storeVars, remoteVars, guardVars, priority_ch, refresh_ch, syncVars, uiVars,
                   boundVars>>

----------------------------------------------------------------------------
\* Specifications

SyncInit ==
    /\ synced_labels = {}
    /\ currently_syncing = "none"
    /\ priority_ch = <<>>
    /\ refresh_ch = 0
    /\ s_pc = "sleep"
    /\ label_ids = <<>>
    /\ s_label = 1
    /\ ids = <<>>
    /\ next_page_token = FALSE
    /\ s_i = 1
    /\ messages = <<>>
    /\ remote_ids = {}
    /\ oldest_date = I64_MAX
    /\ has_new_data = FALSE
    /\ local_info = <<>>
    /\ s_j = 1
    /\ list_failed = {}

\* the interactive task after authentication: labels and messages loaded
UiInit ==
    /\ ui_labels = get_labels(db_labels)
    /\ selected_label_index = 0
    /\ ui_messages = IF get_labels(db_labels) # <<>>
                     THEN get_messages_by_label(get_labels(db_labels)[1]) ELSE <<>>
    /\ selected_message_index = 0
    /\ undo_stack = <<>>
    /\ status_message = "none"
    /\ u_pc = "idle"
    /\ thread_messages = <<>>
    /\ current_label_id = "none"
    /\ label_to_remove = "none"
    /\ spawned = {}
    /\ pre = NoPre

\* A start after earlier sessions: the store holds A, B and C under INBOX and
\* B and C under the category, as the mailbox was when it was last synced;
\* since then another client has taken C out of the category.
InitialLocalLabels ==
    {<<"A", "INBOX">>, <<"B", "INBOX">>, <<"C", "INBOX">>,
     <<"B", "CATEGORY_SOCIAL">>, <<"C", "CATEGORY_SOCIAL">>}

InitialRemoteLabels == InitialLocalLabels \ {<<"C", "CATEGORY_SOCIAL">>}

\* C has been opened in this client (mark_message_as_read) while the mailbox
\* still lists it as unread.
InitialRows ==
    [m \in Msgs |-> IF m \in SmallMailbox
                    THEN [RemoteMessage(m) EXCEPT !.is_read = (m = "C")]
                    ELSE NoRow]

Init ==
    /\ db_labels = Labels
    /\ db_messages = InitialRows
    /\ message_labels = InitialLocalLabels
    /\ mailbox = SmallMailbox
    /\ remote_labels = InitialRemoteLabels
    /\ remote_changes = 0
    /\ recently_modified = [m \in Msgs |-> NoEntry]
    /\ lock = "free"
    /\ now = 0
    /\ SyncInit
    /\ UiInit
    /\ user_budget = MaxUserOps
    /\ keys = <<>>
    /\ cycle_budget = MaxCycles

UiNext ==
    \/ UiRefresh
    \/ \E d \in {-1, 1} : UiSelectLabel(d)
    \/ \E d \in {-1, 1} : UiMoveMessage(d)
    \/ UiDeleteBegin
    \/ UiDeleteLocal
    \/ UiDeleteRemoteOk
    \/ UiDeleteRemoteFail
    \/ UiDeleteRestore
    \/ UiDeleteUnguard
    \/ UiArchiveBegin
    \/ UiArchiveLocal
    \/ UiArchiveRemoteOk
    \/ UiArchiveRemoteFail
    \/ UiArchiveRestore
    \/ UiArchiveUnguard
    \/ UiUndoDelete
    \/ UiUndoArchive
    \/ UiUndoEmpty

EnvNext ==
    \/ \E t \in spawned : RemoteTaskOk(t)
    \/ \E t \in spawned : RemoteTaskFail(t)
    \/ \E m \in Msgs, l \in Labels : RemoteChange(m, l)
    \/ Tick

Next == SyncNext \/ UiNext \/ EnvNext

Spec == Init /\ [][Next]_vars

\* A later start: the store holds what earlier sessions left in it, the guard
\* what the interactive task marked; the sync task runs alone.
PassInit ==
    /\ db_labels = Labels
    /\ \E R \in SUBSET Msgs :
          /\ db_messages = [m \in Msgs |-> IF m \in R THEN RemoteMessage(m) ELSE NoRow]
          /\ \E L \in SUBSET R : message_labels = {<<m, "INBOX">> : m \in L}
    /\ mailbox = Msgs
    /\ \E L \in SUBSET Msgs : remote_labels = {<<m, "INBOX">> : m \in L}
    /\ remote_changes = 0
    /\ \E G \in SUBSET Msgs : recently_modified = [m \in Msgs |-> IF m \in G THEN 0 ELSE NoEntry]
    /\ lock = "free"
    /\ now = 0
    /\ SyncInit
    /\ UiInit
    /\ user_budget = 0
    /\ keys = <<>>
    /\ cycle_budget = 1

PassNext == SyncNext

PassSpec == PassInit /\ [][PassNext]_vars

\* Navigation beside the sync task: the user only moves through labels and
\* messages; a message D has arrived in the mailbox since the last session.
NavInit ==
    /\ db_labels = Labels
    /\ db_messages = InitialRows
    /\ message_labels = InitialLocalLabels
    /\ mailbox = Msgs
    /\ remote_labels = InitialRemoteLabels \cup {<<"D", "INBOX">>}
    /\ remote_changes = 0
    /\ recently_modified = [m \in Msgs |-> NoEntry]
    /\ lock = "free"
    /\ now = 0
    /\ SyncInit
    /\ UiInit
    /\ user_budget = MaxNavKeys
    /\ keys = <<>>
    /\ cycle_budget = MaxCycles

NavNext ==
    \/ SyncNext
    \/ UiRefresh
    \/ \E d \in {-1, 1} : UiSelectLabel(d)
    \/ \E d \in {-1, 1} : UiMoveMessage(d)

NavSpec == NavInit /\ [][NavNext]_vars

\* The interactive task alone: the sync task sleeps (30 s) through the whole
\* run and the spawned remote calls of undo run beside the key handlers. The
\* cursor is where earlier navigation left it.
UserInit ==
    /\ db_labels = Labels
    /\ db_messages = InitialRows
    /\ message_labels = InitialLocalLabels
    /\ mailbox = SmallMailbox
    /\ remote_labels = InitialRemoteLabels
    /\ remote_changes = 0
    /\ recently_modified = [m \in Msgs |-> NoEntry]
    /\ lock = "free"
    /\ now = 0
    /\ SyncInit
    /\ ui_labels = get_labels(Labels)
    /\ \E li \in 0..(Len(get_labels(Labels)) - 1) :
          /\ selected_label_index = li
          /\ ui_messages = get_messages_by_label(get_labels(Labels)[li + 1])
          /\ \E mi \in 0..(Len(get_messages_by_label(get_labels(Labels)[li + 1])) - 1) :
                selected_message_index = mi
    /\ undo_stack = <<>>
    /\ status_message = "none"
    /\ u_pc = "idle"
    /\ thread_messages = <<>>
    /\ current_label_id = "none"
    /\ label_to_remove = "none"
    /\ spawned = {}
    /\ pre = NoPre
    /\ user_budget = MaxUserKeys
    /\ keys = <<>>
    /\ cycle_budget = 0

UiKeys ==
    \/ \E d \in {-1, 1} : UiSelectLabel(d)
    \/ \E d \in {-1, 1} : UiMoveMessage(d)
    \/ UiDeleteBegin
    \/ UiDeleteLocal
    \/ UiDeleteRemoteOk
    \/ UiDeleteRemoteFail
    \/ UiDeleteRestore
    \/ UiDeleteUnguard
    \/ UiArchiveBegin
    \/ UiArchiveLocal
    \/ UiArchiveRemoteOk
    \/ UiArchiveRemoteFail
    \/ UiArchiveRestore
    \/ UiArchiveUnguard
    \/ UiUndoDelete
    \/ UiUndoArchive
    \/ UiUndoEmpty

\* the store fails under a key handler
UiStoreFail ==
    \/ UiDeleteResolveFail
    \/ UiDeleteLocalFail
    \/ UiArchiveResolveFail
    \/ UiArchiveLocalFail

UserNext ==
    \/ UiKeys
    \/ \E t \in spawned : RemoteTaskOk(t)
    \/ \E t \in spawned : RemoteTaskFail(t)

UserSpec == UserInit /\ [][UserNext]_vars

\* The interactive task alone with a store whose calls may fail.
StoreFailNext == UserNext \/ UiStoreFail

StoreFailSpec == UserInit /\ [][StoreFailNext]_vars

\* The sync task left to itself for ever: the mailbox is static, the user
\* idle, every remote call succeeds, and the runtime keeps scheduling both
\* the sync task and the refresh of the interactive loop. The store has rows
\* for A, B and C, any of them under INBOX; the mailbox has any of the four
\* messages under INBOX.
ConvInit ==
    /\ db_labels = Labels
    /\ db_messages = [m \in Msgs |-> IF m \in SmallMailbox THEN RemoteMessage(m) ELSE NoRow]
    /\ \E L \in SUBSET SmallMailbox : message_labels = {<<m, "INBOX">> : m \in L}
    /\ mailbox = Msgs
    /\ \E L \in SUBSET Msgs : remote_labels = {<<m, "INBOX">> : m \in L}
    /\ remote_changes = 0
    /\ recently_modified = [m \in Msgs |-> NoEntry]
    /\ lock = "free"
    /\ now = 0
    /\ SyncInit
    /\ UiInit
    /\ user_budget = 0
    /\ keys = <<>>
    /\ cycle_budget = -1

ConvNext == SyncOk \/ UiRefresh

ConvSpec == ConvInit /\ [][ConvNext]_vars /\ WF_vars(SyncOk) /\ WF_vars(UiRefresh)

\* The sync task left to itself with a mailbox that may fail: the user is
\* idle, any remote call may fail any number of times, the runtime keeps
\* scheduling the sync task and the refresh of the interactive loop, and
\* the cycles go on for ever.
RetryInit ==
    /\ db_labels = Labels
    /\ db_messages = InitialRows
    /\ message_labels = InitialLocalLabels
    /\ mailbox = Msgs
    /\ remote_labels = InitialRemoteLabels \cup {<<"D", "INBOX">>}
    /\ remote_changes = 0
    /\ recently_modified = [m \in Msgs |-> NoEntry]
    /\ lock = "free"
    /\ now = 0
    /\ SyncInit
    /\ UiInit
    /\ user_budget = 0
    /\ keys = <<>>
    /\ cycle_budget = -1

RetryNext == SyncNext \/ UiRefresh

RetrySpec == RetryInit /\ [][RetryNext]_vars /\ WF_vars(SyncNext) /\ WF_vars(UiRefresh)

\* The label table by itself: any set of the labels is upserted at any time
\* and the list of labels is loaded from the table.
LabelInit ==
    /\ \E S \in SUBSET AllLabels : db_labels = S
    /\ db_messages = InitialRows
    /\ message_labels = InitialLocalLabels
    /\ mailbox = SmallMailbox
    /\ remote_labels = InitialRemoteLabels
    /\ remote_changes = 0
    /\ recently_modified = [m \in Msgs |-> NoEntry]
    /\ lock = "free"
    /\ now = 0
    /\ SyncInit
    /\ ui_labels = <<>>
    /\ selected_label_index = 0
    /\ ui_messages = <<>>
    /\ selected_message_index = 0
    /\ undo_stack = <<>>
    /\ status_message = "none"
    /\ u_pc = "idle"
    /\ thread_messages = <<>>
    /\ current_label_id = "none"
    /\ label_to_remove = "none"
    /\ spawned = {}
    /\ pre = NoPre
    /\ user_budget = 0
    /\ keys = <<>>
    /\ cycle_budget = 0

\* db.upsert_labels(&l) for a listing l
LabelUpsert(S) ==
    /\ db_labels' = db_labels \cup S
    /\ UNCHANGED <<db_messages, message_labels, remoteVars, guardVars, now, priority_ch,
                   refresh_ch, syncVars, uiVars, boundVars>>

\* ui_state.labels = db.get_labels().await?
LabelLoad ==
    /\ ui_labels' = get_labels(db_labels)
    /\ UNCHANGED <<storeVars, remoteVars, guardVars, now, priority_ch, refresh_ch, syncVars,
                   selected_label_index, ui_messages, selected_message_index,
                   undo_stack, status_message, u_pc, thread_messages,
                   current_label_id, label_to_remove, spawned, pre, boundVars>>

LabelNext ==
    \/ \E S \in SUBSET AllLabels : LabelUpsert(S)
    \/ LabelLoad

LabelSpec == LabelInit /\ [][LabelNext]_vars

\* The interactive task alone on a store with a user label: A, the older
\* message of the thread of A and B, carries Label_1.
ViewLocalLabels == InitialLocalLabels \cup {<<"A", "Label_1">>}

ViewInit ==
    /\ db_labels = Labels \cup {"Label_1"}
    /\ db_messages = InitialRows
    /\ message_labels = ViewLocalLabels
    /\ mailbox = SmallMailbox
    /\ remote_labels = InitialRemoteLabels \cup {<<"A", "Label_1">>}
    /\ remote_changes = 0
    /\ recently_modified = [m \in Msgs |-> NoEntry]
    /\ lock = "free"
    /\ now = 0
    /\ SyncInit
    /\ ui_labels = get_labels(Labels \cup {"Label_1"})
    /\ \E li \in 0..(Len(get_labels(Labels \cup {"Label_1"})) - 1) :
          /\ selected_label_index = li
          /\ ui_messages = get_messages_by_label(get_labels(Labels \cup {"Label_1"})[li + 1])
          /\ \E mi \in 0..(Len(get_messages_by_label(get_labels(Labels \cup {"Label_1"})[li + 1])) - 1) :
                selected_message_index = mi
    /\ undo_stack = <<>>
    /\ status_message = "none"
    /\ u_pc = "idle"
    /\ thread_messages = <<>>
    /\ current_label_id = "none"
    /\ label_to_remove = "none"
    /\ spawned = {}
    /\ pre = NoPre
    /\ user_budget = MaxUserKeys
    /\ keys = <<>>
    /\ cycle_budget = 0

ViewNext == UserNext

ViewSpec == ViewInit /\ [][ViewNext]_vars

\* The guard by itself: its operations are applied, in any order, to any set
\* of ids, at instants on both sides of the end of the grace period.
GuardTimes == {0, 1, 299, 300, 301, 600}

GuardInit ==
    /\ db_labels = Labels
    /\ db_messages = InitialRows
    /\ message_labels = InitialLocalLabels
    /\ mailbox = SmallMailbox
    /\ remote_labels = InitialRemoteLabels
    /\ remote_changes = 0
    /\ recently_modified = [m \in Msgs |-> NoEntry]
    /\ lock = "free"
    /\ now = 0
    /\ SyncInit
    /\ UiInit
    /\ user_budget = 0
    /\ keys = <<>>
    /\ cycle_budget = 0

\* state.mark_modified_many(message_ids)
GuardMark(S) ==
    /\ recently_modified' = mark_modified_many(recently_modified, S)
    /\ UNCHANGED <<storeVars, remoteVars, synced_labels, currently_syncing, now, priority_ch,
                   refresh_ch, syncVars, uiVars, boundVars>>
    /\ UNCHANGED lock

\* state.cleanup_expired()
GuardCleanup ==
    /\ recently_modified' = cleanup_expired(recently_modified)
    /\ UNCHANGED <<storeVars, remoteVars, synced_labels, currently_syncing, now, priority_ch,
                   refresh_ch, syncVars, uiVars, boundVars>>
    /\ UNCHANGED lock

\* state.recently_modified.remove(id) for every id of S
GuardUnmark(S) ==
    /\ recently_modified' = unmark(recently_modified, S)
    /\ UNCHANGED <<storeVars, remoteVars, synced_labels, currently_syncing, now, priority_ch,
                   refresh_ch, syncVars, uiVars, boundVars>>
    /\ UNCHANGED lock

\* Instant::now() has moved on to t
GuardTick(t) ==
    /\ t > now
    /\ now' = t
    /\ UNCHANGED <<storeVars, remoteVars, guardVars, priority_ch, refresh_ch, syncVars, uiVars,
                   boundVars>>

GuardNext ==
    \/ \E S \in SUBSET Msgs : GuardMark(S)
    \/ GuardCleanup
    \/ \E S \in SUBSET Msgs : GuardUnmark(S)
    \/ \E t \in GuardTimes : GuardTick(t)

GuardSpec == GuardInit /\ [][GuardNext]_vars

----------------------------------------------------------------------------
\* Properties of the engine

Guarded(m) == is_recently_modified(recently_modified, m)

LabelsOf(ml, m) == {l \in Labels : <<m, l>> \in ml}

\* the step is a step of the sync task that changes the row of m or one of
\* the associations of m (the interactive task never moves s_pc)
ReconcilerWrites(m) ==
    /\ s_pc' # s_pc
    /\ \/ db_messages'[m] # db_messages[m]
       \/ LabelsOf(message_labels', m) # LabelsOf(message_labels, m)

\* C1: in every interleaving of the interactive task with a label pass, the
\* sync task neither upserts a message nor removes an association of an id
\* whose guard entry exists and has not expired at that moment, also when the
\* entry was made after the pass had read the guard for the id.
C1_GuardedIdUntouched ==
    [][\A m \in Msgs : ReconcilerWrites(m) => ~Guarded(m)]_vars

\* the remote call of the delete or archive in progress returns success
RemoteCallSucceeds ==
    /\ u_pc \in {"del_remote", "arc_remote"}
    /\ u_pc' = "idle"

\* C8: the undo stack grows only in the step in which the remote mutation of
\* the action pushed returns success, for Delete and for Archive: no action
\* whose remote call is pending or failed is ever on the stack.
C8_PushOnlyAfterRemoteSuccess ==
    [][Len(undo_stack') > Len(undo_stack) => RemoteCallSucceeds]_vars

\* a step of the sync task takes the association <<m, l>> out of the store
ReconcilerRemoves(m, l) ==
    /\ s_pc' # s_pc
    /\ <<m, l>> \in message_labels
    /\ <<m, l>> \notin message_labels'

\* C2: in a label pass whose fetched page carries a next-page token the sync
\* task removes no association from the store, whatever the store, the page
\* and the guard hold.
C2_TruncatedPageRemovesNothing ==
    [][next_page_token => \A m \in Msgs, l \in Labels : ~ReconcilerRemoves(m, l)]_vars

\* a pass with a truncated page reaches its end while the store holds, under
\* the label, an unguarded message inside the date window that the page did
\* not list: the removal that a complete page would have caused
C2_TruncatedPassSparesCandidate ==
    /\ s_pc = "mark"
    /\ next_page_token
    /\ \E m \in Msgs :
          /\ message_exists(m)
          /\ <<m, label_ids[s_label]>> \in message_labels
          /\ ~Guarded(m)
          /\ RowDate[m] >= oldest_date
          /\ m \notin remote_ids

\* C3: the store holds A (date 100) and B (date 200) under INBOX, both
\* unguarded, and the INBOX page is [B] without a next-page token; at the end
\* of that pass A has lost the INBOX association and B still has it.
C3_ScenarioRemovesA ==
    (/\ s_pc = "mark"
     /\ label_ids[s_label] = "INBOX"
     /\ ids = <<"B">>
     /\ ~next_page_token
     /\ local_info = << <<"B", 200>>, <<"A", 100>> >>
     /\ ~Guarded("A")
     /\ ~Guarded("B"))
    => (<<"A", "INBOX">> \notin message_labels /\ <<"B", "INBOX">> \in message_labels)

\* the three conditions of the removal rule, for a stored message
Qualifies(m) ==
    /\ ~Guarded(m)
    /\ RowDate[m] >= oldest_date
    /\ m \notin remote_ids

\* m is among the pairs the pass fetched from the store for removal inference
InLocalWindow(m) == \E k \in 1..Len(local_info) : local_info[k][1] = m

\* the pass of the current label ends
PassEnds == s_pc = "mark" /\ s_pc' # "mark"

UndoDeleteStep ==
    /\ undo_stack # <<>>
    /\ Top(undo_stack).kind = "Delete"
    /\ undo_stack' = Pop(undo_stack)

\* C4: when the undo of a Delete has been handled, the store holds every
\* message record captured at delete time, as captured, each under the
\* captured label, and no other message of that thread, whatever the sync
\* task did between the delete and the undo.
C4_UndoDeleteRestoresCaptured ==
    [][UndoDeleteStep =>
          LET a == Top(undo_stack)
          IN  /\ \A k \in 1..Len(a.messages) :
                    /\ db_messages'[a.messages[k].id] = a.messages[k]
                    /\ <<a.messages[k].id, a.label_id>> \in message_labels'
              /\ \A m \in Msgs :
                    (/\ a.messages # <<>>
                     /\ db_messages'[m] # NoRow
                     /\ db_messages'[m].thread_id = a.messages[1].thread_id)
                    => m \in IdsOf(a.messages)]_vars

\* the delete of C succeeded remotely, the sync task fetched C in its INBOX
\* pass because the row was gone and has upserted it from the mailbox (as
\* unread), and the undo handled afterwards has put the captured record (read)
\* back under INBOX
C4_UndoAfterReconcilerUpsert ==
    /\ keys = <<"delete", "undo">>
    /\ status_message = "Undone: delete"
    /\ "C" \notin mailbox
    /\ s_pc = "mark"
    /\ label_ids[s_label] = "INBOX"
    /\ "C" \in IdsOf(messages)
    /\ db_messages["C"].is_read
    /\ <<"C", "INBOX">> \in message_labels

\* the rollback of a failed archive is complete
ArchiveFailureHandled == u_pc = "arc_unguard" /\ u_pc' = "idle"

\* C5: when every message of the archived thread carried the label being
\* removed and the remote call fails, then once the handler is through every
\* message of the thread has the label in the store, none of them has a guard
\* entry, the status reports the failure and the undo stack is as it was
\* before the archive.
C5_FailedArchiveRollsBack ==
    [][(/\ ArchiveFailureHandled
        /\ \A m \in IdsOf(thread_messages) : <<m, label_to_remove>> \in pre.labels)
       => /\ \A m \in IdsOf(thread_messages) :
                /\ <<m, label_to_remove>> \in message_labels'
                /\ recently_modified'[m] = NoEntry
          /\ status_message' = "Archive failed"
          /\ undo_stack' = pre.stack]_vars

\* a cycle of the sync task starts: the order of the cycle is fixed
CycleStarts == s_pc = "sleep" /\ s_pc' = "label"

\* C6: when the user has selected labels since the last cycle start (the
\* channel was emptied then, so it is non-empty now), the cycle that starts
\* processes first the label selected last, which is the label the cursor is
\* on.
C6_LastSelectedLabelFirst ==
    [][(CycleStarts /\ priority_ch # <<>>) => label_ids'[1] = CurrentLabel]_vars

AssocOf(ml, S) == {p \in ml : p[1] \in S}

\* Archive, Undo, Archive have been handled, nothing else, and the second
\* archive succeeded (the first did, or there was nothing to undo); the
\* action on the stack holds the thread and the label removed
RoundTripDone ==
    /\ keys = <<"archive", "undo", "archive">>
    /\ u_pc = "idle"
    /\ status_message = "Archived successfully"
    /\ Len(undo_stack) = 1

\* C7: after Archive, Undo, Archive on a thread, with no change by the sync
\* task, the associations of the thread's messages in the store are those
\* from before the first archive.
C7_RoundTripIsIdentity ==
    RoundTripDone =>
        LET T == IdsOf(Top(undo_stack).messages)
        IN  AssocOf(message_labels, T) = AssocOf(InitialLocalLabels, T)

\* C7, amended: after Archive, Undo, Archive the associations of the
\* thread's messages are those from before the first archive without the
\* archived label, which is the state one archive leaves.
C7_RoundTripIsOneArchive ==
    RoundTripDone =>
        LET T == IdsOf(Top(undo_stack).messages)
        IN  AssocOf(message_labels, T) =
               AssocOf(InitialLocalLabels, T) \ {<<m, Top(undo_stack).label_id>> : m \in T}

\* the round trip has been made on the thread of A and B from the INBOX view
C7_RoundTripOnThread ==
    /\ RoundTripDone
    /\ IdsOf(Top(undo_stack).messages) = {"A", "B"}
    /\ Top(undo_stack).label_id = "INBOX"
    /\ <<"A", "INBOX">> \notin message_labels
    /\ <<"B", "INBOX">> \notin message_labels

\* C9: with a static mailbox, an idle user, remote calls that all succeed
\* and a fairly scheduled sync task, the associations of the store
\* eventually equal those of the mailbox, and stay equal.
C9_EventuallyConsistent ==
    <>[](message_labels = {p \in remote_labels : p[1] \in mailbox})

\* the listing of the current label succeeded and returned no id and no token
EmptyPage ==
    /\ s_pc \in {"upsert", "local", "rcheck", "remove", "mark"}
    /\ label_ids[s_label] \notin list_failed
    /\ ids = <<>>
    /\ ~next_page_token

\* C11: in a pass whose page is empty (no id, no next-page token) the sync
\* task performs no removal inference: it does not fetch the local window,
\* decide or execute a removal, and every association of the store under the
\* label stays in place.
C11_EmptyPageRemovesNothing ==
    [][(EmptyPage /\ s_pc' # s_pc) =>
          /\ s_pc' \notin {"local", "rcheck", "remove"}
          /\ \A m \in Msgs : <<m, label_ids[s_label]>> \in message_labels
                                => <<m, label_ids[s_label]>> \in message_labels']_vars

\* the INBOX pass with an empty page is at its end while the store holds an
\* unguarded message under INBOX, which is still there
C11_EmptyPassKeepsStored ==
    /\ s_pc = "mark"
    /\ EmptyPage
    /\ label_ids[s_label] = "INBOX"
    /\ \E m \in Msgs :
          /\ message_exists(m)
          /\ ~Guarded(m)
          /\ <<m, "INBOX">> \in message_labels

\* the rollback of a failed delete is complete
DeleteFailureHandled == u_pc = "del_unguard" /\ u_pc' = "idle"

\* C12: when the user deletes a thread and the remote trash call fails, then
\* once the handler is through every message of the thread has its row in the
\* store again, under the label that was viewed, none of them has a guard
\* entry, and the status reports the failure.
C12_FailedDeleteRollsBack ==
    [][DeleteFailureHandled =>
          /\ \A m \in IdsOf(thread_messages) :
                /\ db_messages'[m] # NoRow
                /\ <<m, current_label_id>> \in message_labels'
                /\ recently_modified'[m] = NoEntry
          /\ status_message' = "Delete failed"]_vars

\* C13: an id is guarded exactly when the map has an entry for it whose age
\* is strictly below five minutes: not when the id is absent, not when the
\* entry is five minutes old or older; and marking an id that is already
\* marked makes its age zero.
C13_GuardedIffYoungEntry ==
    /\ [](\A m \in Msgs :
             /\ recently_modified[m] = NoEntry => ~is_recently_modified(recently_modified, m)
             /\ recently_modified[m] # NoEntry =>
                   (is_recently_modified(recently_modified, m)
                       <=> now - recently_modified[m] < 5 * 60))
    /\ [][\A S \in SUBSET Msgs : GuardMark(S) =>
             \A m \in S : recently_modified'[m] = now
                          /\ is_recently_modified(recently_modified', m)]_vars

\* five minutes after the first mark: A was marked then and is no longer
\* guarded, B was marked a second later and still is, C has been marked again
\* just now, D was never marked
C13_GuardAtTheBoundary ==
    /\ now = 300
    /\ recently_modified["A"] = 0
    /\ recently_modified["B"] = 1
    /\ recently_modified["C"] = 300
    /\ recently_modified["D"] = NoEntry
    /\ ~Guarded("A")
    /\ Guarded("B")
    /\ Guarded("C")
    /\ ~Guarded("D")

\* the key handled in this step is the undo key
UndoRequested == keys' = Append(keys, "undo")

\* C14: the undo stack is last-in-first-out and an action is consumed once.
\* The stack changes only by a push on top or by the removal of its top; an
\* undo request removes the top, restores in the store what that action
\* captured and issues its remote inverse; nothing but a Delete or an Archive
\* handler pushes, so a popped action is never put back; an undo request on
\* an empty stack changes nothing.
C14_UndoStackIsLifo ==
    [][/\ undo_stack' # undo_stack =>
             \/ Len(undo_stack') = Len(undo_stack) + 1
                /\ SubSeq(undo_stack', 1, Len(undo_stack)) = undo_stack
                /\ ~UndoRequested
                /\ \/ u_pc = "idle" /\ u_pc' = "del_local"
                   \/ u_pc = "arc_remote"
             \/ Len(undo_stack) > 0
                /\ undo_stack' = SubSeq(undo_stack, 1, Len(undo_stack) - 1)
                /\ UndoRequested
       /\ (UndoRequested /\ undo_stack # <<>>) =>
             LET a == undo_stack[Len(undo_stack)]
             IN  /\ undo_stack' = SubSeq(undo_stack, 1, Len(undo_stack) - 1)
                 /\ \A k \in 1..Len(a.messages) :
                       /\ <<a.messages[k].id, a.label_id>> \in message_labels'
                       /\ a.kind = "Delete" => db_messages'[a.messages[k].id] # NoRow
                 /\ spawned' = spawned \cup
                       {[op |-> IF a.kind = "Delete" THEN "untrash"
                                ELSE IF a.label_id = "INBOX" THEN "unarchive" ELSE "add_label",
                         id |-> a.messages[k].id,
                         label_id |-> IF a.kind = "Delete" THEN "none" ELSE a.label_id]
                           : k \in 1..Len(a.messages)}
       /\ (UndoRequested /\ undo_stack = <<>>) =>
             UNCHANGED <<storeVars, remoteVars, guardVars, ui_labels, selected_label_index,
                         ui_messages, selected_message_index, undo_stack, status_message,
                         u_pc, spawned>>]_vars

\* a delete, then an archive, then an undo: the undo took the Archive action,
\* pushed last, and left the Delete action on the stack
C14_UndoTookTheLastPushed ==
    /\ keys = <<"delete", "archive", "undo">>
    /\ status_message = "Undone: archive"
    /\ Len(undo_stack) = 1
    /\ undo_stack[1].kind = "Delete"
    /\ \E t \in spawned : t.op \in {"unarchive", "add_label"}

\* C15: a message row leaves the store only in the local-delete step of the
\* user's Delete; no step of the sync task and no step of an Archive removes
\* a row, they remove associations only.
C15_OnlyDeleteRemovesRows ==
    [][\A m \in Msgs :
          (db_messages[m] # NoRow /\ db_messages'[m] = NoRow) =>
              /\ u_pc = "del_local"
              /\ s_pc' = s_pc
              /\ keys[Len(keys)] = "delete"
              /\ m \in IdsOf(thread_messages)]_vars

\* C has been archived from the INBOX view and the sync task has taken it out
\* of the category: C has no association left and its row is still there
C15_RowOutlivesItsLabels ==
    /\ keys = <<"archive">>
    /\ status_message = "Archived successfully"
    /\ synced_labels = Labels
    /\ \A l \in Labels : <<"C", l>> \notin message_labels
    /\ db_messages["C"] # NoRow

AssocUnder(ml, l) == {p \in ml : p[2] = l}

\* C16: when list_messages fails for a label, the sync task changes neither
\* rows nor associations in what is left of that label's pass, changes no
\* association under that label and no row of a message under it before the
\* label is listed again, goes on to the next label of the cycle (to the
\* sleep after the last one), and lists the label again in a later cycle.
C16_FailedListingSkipsLabel ==
    /\ [][/\ (/\ s_pc \in {"list", "mark", "send"}
              /\ s_pc' # s_pc
              /\ label_ids[s_label] \in list_failed') =>
                /\ db_messages' = db_messages
                /\ message_labels' = message_labels
                /\ s_pc = "list" => s_pc' = "mark"
                /\ (s_pc # "list" /\ s_pc' \notin {"mark", "send"}) =>
                      IF s_label < Len(label_ids)
                      THEN s_pc' = "label" /\ s_label' = s_label + 1 /\ label_ids' = label_ids
                      ELSE s_pc' = "sleep"
          /\ \A l \in list_failed :
                /\ AssocUnder(message_labels', l) = AssocUnder(message_labels, l)
                /\ \A m \in Msgs : <<m, l>> \in message_labels
                                      => db_messages'[m] = db_messages[m]]_vars
    /\ \A l \in Labels :
          (l \in list_failed) ~> (s_pc = "list" /\ label_ids[s_label] = l)

\* the listing of CATEGORY_SOCIAL failed, the cycle went on with INBOX and
\* stored the new message D, and a later cycle is about to list
\* CATEGORY_SOCIAL again; the store still has C under it
C16_RetryAfterFailure ==
    /\ s_pc = "list"
    /\ label_ids[s_label] = "CATEGORY_SOCIAL"
    /\ "CATEGORY_SOCIAL" \in list_failed
    /\ "INBOX" \notin list_failed
    /\ <<"D", "INBOX">> \in message_labels
    /\ <<"C", "CATEGORY_SOCIAL">> \in message_labels

\* C17: when a call to the store fails under the Delete or Archive handler
\* (resolving the thread, deleting the rows, removing the association), the
\* handler stops there: it is back at the key loop with a status message that
\* reports the failure, and never at the remote call.
C17_StoreFailureAborts ==
    pre.db_err =>
        /\ u_pc = "idle"
        /\ status_message \notin {"none", "Deleted successfully", "Archived successfully"}

\* C20: for every set of stored labels (ids are unique, the table is keyed
\* by id) the list loaded by get_labels holds each of them once, the label
\* with id INBOX first and the others in ascending order of name.
C20_InboxFirstThenByName ==
    [][LabelLoad =>
          /\ Len(ui_labels') = Cardinality(db_labels)
          /\ Range(ui_labels') = db_labels
          /\ "INBOX" \in db_labels => ui_labels'[1] = "INBOX"
          /\ \A i, j \in 1..Len(ui_labels') :
                (i < j /\ ui_labels'[i] # "INBOX" /\ ui_labels'[j] # "INBOX")
                    => NameRank(ui_labels'[i]) <= NameRank(ui_labels'[j])]_vars

\* all five labels are stored and loaded: INBOX first, then Admin (Label_2),
\* CATEGORY_SOCIAL, SENT and Work (Label_1)
C20_AllLabelsLoaded ==
    /\ db_labels = AllLabels
    /\ ui_labels = <<"INBOX", "Label_2", "CATEGORY_SOCIAL", "SENT", "Label_1">>

\* the remote call of the archive in progress returns success
ArchiveSucceeds == u_pc = "arc_remote" /\ u_pc' = "idle"

\* C18: an archive removes the viewed label when that is a category label
\* and INBOX for any other viewed label, and it is that one label which has
\* left the thread's messages in the store, which the remote call takes off
\* them in the mailbox, and which the Archive action pushed carries.
C18_ArchiveRemovesOneLabel ==
    [][ArchiveSucceeds =>
          LET viewed == ui_labels[selected_label_index + 1]
              expected == IF viewed = "CATEGORY_SOCIAL" THEN viewed ELSE "INBOX"
              T == IdsOf(thread_messages)
          IN  /\ message_labels = pre.labels \ {<<m, expected>> : m \in T}
              /\ remote_labels' = remote_labels \ {<<m, expected>> : m \in T}
              /\ undo_stack' = Append(undo_stack, [kind |-> "Archive",
                                                   messages |-> thread_messages,
                                                   label_id |-> expected,
                                                   original_index |-> selected_message_index])]_vars

\* the thread of A and B has been archived from the view of Label_1: both
\* have lost INBOX in the store and in the mailbox, A still has Label_1, and
\* the action on the stack says INBOX
C18_ArchivedFromUserLabel ==
    /\ keys = <<"archive">>
    /\ status_message = "Archived successfully"
    /\ ui_labels[selected_label_index + 1] = "Label_1"
    /\ undo_stack[1].label_id = "INBOX"
    /\ \A m \in {"A", "B"} : <<m, "INBOX">> \notin message_labels \cup remote_labels
    /\ <<"A", "Label_1">> \in message_labels \cap remote_labels

\* the undo key pops an Archive action
UndoArchiveStep ==
    /\ UndoRequested
    /\ undo_stack # <<>>
    /\ undo_stack[Len(undo_stack)].kind = "Archive"

\* C19: the undo of an Archive puts the captured label back on every
\* captured message in the store and issues one remote restore per captured
\* id: unarchive when the captured label is INBOX, add-label with the
\* captured label otherwise; a restore that succeeds puts that label on the
\* message in the mailbox.
C19_UndoArchiveRestoresLabel ==
    [][/\ UndoArchiveStep =>
             LET a == undo_stack[Len(undo_stack)]
             IN  /\ \A k \in 1..Len(a.messages) :
                       <<a.messages[k].id, a.label_id>> \in message_labels'
                 /\ db_messages' = db_messages
                 /\ spawned' \ spawned \subseteq
                       {t \in spawned' : t.id \in IdsOf(a.messages)}
                 /\ \A k \in 1..Len(a.messages) : \E t \in spawned' :
                       /\ t.id = a.messages[k].id
                       /\ t.label_id = a.label_id
                       /\ t.op = IF a.label_id = "INBOX" THEN "unarchive" ELSE "add_label"
                 /\ \A t \in spawned' \ spawned :
                       /\ t.label_id = a.label_id
                       /\ t.op = IF a.label_id = "INBOX" THEN "unarchive" ELSE "add_label"
       /\ \A t \in spawned :
             (t \notin spawned' /\ t.op \in {"unarchive", "add_label"}
                  /\ remote_labels' # remote_labels)
             => remote_labels' = remote_labels \cup
                   {<<t.id, IF t.op = "unarchive" THEN "INBOX" ELSE t.label_id>>}]_vars

\* the thread of A and B was archived from the CATEGORY_SOCIAL view and the
\* archive undone; both add-label calls have been made: A and B carry the
\* category in the store and in the mailbox
C19_CategoryRestored ==
    /\ keys = <<"archive", "undo">>
    /\ status_message = "Undone: archive"
    /\ ui_labels[selected_label_index + 1] = "CATEGORY_SOCIAL"
    /\ spawned = {}
    /\ \A m \in {"A", "B"} : <<m, "CATEGORY_SOCIAL">> \in message_labels \cap remote_labels
    /\ \A m \in {"A", "B"} : <<m, "INBOX">> \in message_labels \cap remote_labels

----------------------------------------------------------------------------
\* upsert_messages by itself: any batch of at most MaxBatch messages, with
\* any date and read flag for an id, is upserted under INBOX into a store
\* that holds any rows; delete_message removes rows.
MaxBatch == 2

\* an internal_date that no message of the mailbox has
OtherDate == 999

BatchIds == {"A", "B"}

BatchMessages ==
    UNION {{[id |-> m, thread_id |-> ThreadOf[m], internal_date |-> d, is_read |-> r] :
               d \in {DateOf[m], OtherDate}, r \in BOOLEAN} : m \in BatchIds}

Batches == UNION {[1..n -> BatchMessages] : n \in 1..MaxBatch}

DateInit ==
    /\ db_labels = Labels
    /\ \E R \in SUBSET BatchIds :
          /\ db_messages = [m \in Msgs |-> IF m \in R THEN RemoteMessage(m) ELSE NoRow]
          /\ message_labels = {<<m, "INBOX">> : m \in R}
    /\ mailbox = SmallMailbox
    /\ remote_labels = InitialRemoteLabels
    /\ remote_changes = 0
    /\ recently_modified = [m \in Msgs |-> NoEntry]
    /\ lock = "free"
    /\ now = 0
    /\ SyncInit
    /\ ui_labels = <<>>
    /\ selected_label_index = 0
    /\ ui_messages = <<>>
    /\ selected_message_index = 0
    /\ undo_stack = <<>>
    /\ status_message = "none"
    /\ u_pc = "idle"
    /\ thread_messages = <<>>
    /\ current_label_id = "none"
    /\ label_to_remove = "none"
    /\ spawned = {}
    /\ pre = NoPre
    /\ user_budget = 0
    /\ keys = <<>>
    /\ cycle_budget = 0

\* db.upsert_messages(&messages, "INBOX"); messages keeps the batch
DateUpsert(batch) ==
    /\ messages' = batch
    /\ db_messages' = upsert_messages_rows(db_messages, batch)
    /\ message_labels' = upsert_messages_labels(message_labels, batch, "INBOX")
    /\ UNCHANGED <<db_labels, remoteVars, guardVars, now, priority_ch, refresh_ch,
                   s_pc, label_ids, s_label, ids, next_page_token, s_i, remote_ids,
                   oldest_date, has_new_data, local_info, s_j, list_failed, uiVars,
                   boundVars>>

\* db.delete_message(id)
DateDelete(id) ==
    /\ message_exists(id)
    /\ messages' = <<>>
    /\ db_messages' = delete_message_rows(db_messages, {id})
    /\ message_labels' = delete_message_labels(message_labels, {id})
    /\ UNCHANGED <<db_labels, remoteVars, guardVars, now, priority_ch, refresh_ch,
                   s_pc, label_ids, s_label, ids, next_page_token, s_i, remote_ids,
                   oldest_date, has_new_data, local_info, s_j, list_failed, uiVars,
                   boundVars>>

DateNext ==
    \/ \E batch \in Batches : DateUpsert(batch)
    \/ \E id \in BatchIds : DateDelete(id)

DateSpec == DateInit /\ [][DateNext]_vars

\* C21: once an id has a row in the store, no step changes the internal_date
\* of that row for as long as the row is there: an upsert of a message whose
\* id has a row leaves the stored date (and thread) as it was.
C21_InternalDateImmutable ==
    [][\A m \in Msgs :
          (db_messages[m] # NoRow /\ db_messages'[m] # NoRow)
             => /\ db_messages'[m].internal_date = db_messages[m].internal_date
                /\ db_messages'[m].thread_id = db_messages[m].thread_id]_vars

\* the batch just upserted carried, for A, a date other than the stored one
\* and the flag read: the row of A has kept its date and taken the flag
C21_UpsertOverOtherDate ==
    /\ Len(messages) = 1
    /\ messages[1].id = "A"
    /\ messages[1].internal_date = OtherDate
    /\ messages[1].is_read
    /\ db_messages["A"].internal_date = DateOf["A"]
    /\ db_messages["A"].is_read

\* the ids of the stored messages of the selected message's thread
SelectedThreadIds ==
    {m \in Msgs : message_exists(m) /\ db_messages[m].thread_id = SelectedMessage.thread_id}

\* a Delete or Archive key is taken up: the thread is resolved and guarded
MutationBegins == u_pc = "idle" /\ u_pc' \in {"del_local", "arc_local"}

\* the loop of store calls of a Delete or Archive handler
MutationLocalStep == u_pc \in {"del_local", "arc_local"} /\ u_pc' # u_pc

\* the remote call of a Delete or Archive handler returns Ok
MutationRemoteOk == u_pc \in {"del_remote", "arc_remote"} /\ u_pc' = "idle"

\* C22: in a user archive or delete the ids resolved from the store for the
\* selected thread are all marked in the guard first; they are guarded when
\* the store is changed and when the remote call is made; and the store
\* calls and the remote call act on exactly those ids.
C22_GuardedBeforeMutation ==
    [][/\ MutationBegins =>
             /\ IdsOf(thread_messages') = SelectedThreadIds
             /\ \A m \in SelectedThreadIds : is_recently_modified(recently_modified', m)
             /\ \A m \in Msgs \ SelectedThreadIds : recently_modified'[m] = recently_modified[m]
             /\ storeVars' = storeVars
             /\ remoteVars' = remoteVars
       /\ (MutationLocalStep \/ MutationRemoteOk) =>
             \A m \in IdsOf(thread_messages) : is_recently_modified(recently_modified, m)
       /\ MutationLocalStep =>
             LET T == IdsOf(thread_messages)
             IN  /\ remoteVars' = remoteVars
                 /\ IF u_pc = "del_local"
                    THEN /\ db_messages' = [m \in Msgs |-> IF m \in T THEN NoRow ELSE db_messages[m]]
                         /\ message_labels' = {p \in message_labels : p[1] \notin T}
                    ELSE /\ db_messages' = db_messages
                         /\ message_labels' = message_labels \ {<<m, label_to_remove>> : m \in T}
       /\ MutationRemoteOk =>
             LET T == IdsOf(thread_messages)
             IN  /\ storeVars' = storeVars
                 /\ IF u_pc = "del_remote"
                    THEN mailbox' = mailbox \ T /\ remote_labels' = remote_labels
                    ELSE /\ mailbox' = mailbox
                         /\ remote_labels' = remote_labels \ {<<m, label_to_remove>> : m \in T}]_vars

\* the thread of A and B is being deleted from the INBOX view: both ids are
\* guarded, both rows have left the store, and the remote call, not made
\* yet, will take both
C22_ThreadGuardedAtRemoteCall ==
    /\ u_pc = "del_remote"
    /\ IdsOf(thread_messages) = {"A", "B"}
    /\ \A m \in {"A", "B"} : is_recently_modified(recently_modified, m) /\ ~message_exists(m)
    /\ ~is_recently_modified(recently_modified, "C")
    /\ {"A", "B"} \subseteq mailbox

----------------------------------------------------------------------------
\* The purge beside its caller: the sync task runs one cycle while ids are
\* marked in the guard and the clock moves to instants on both sides of the
\* end of the grace period.
PurgeMarked == {"B", "C"}

PurgeInit ==
    /\ db_labels = Labels
    /\ db_messages = InitialRows
    /\ message_labels = InitialLocalLabels
    /\ mailbox = Msgs
    /\ remote_labels = InitialRemoteLabels \cup {<<"D", "INBOX">>}
    /\ remote_changes = 0
    /\ recently_modified = [m \in Msgs |-> NoEntry]
    /\ lock = "free"
    /\ now = 0
    /\ SyncInit
    /\ UiInit
    /\ user_budget = 0
    /\ keys = <<>>
    /\ cycle_budget = MaxCycles

PurgeNext ==
    \/ SyncNext
    \/ \E S \in SUBSET PurgeMarked : GuardMark(S)
    \/ \E t \in GuardTimes : GuardTick(t)

PurgeSpec == PurgeInit /\ [][PurgeNext]_vars

\* the sync task begins the pass of a label
LabelPassBegins == s_pc = "label" /\ s_pc' = "list"

\* C23: the purge removes exactly the entries whose age is at least the
\* grace period and keeps every younger entry with its timestamp, so every
\* id is guarded after the purge exactly when it was before; and the sync
\* task purges at the start of every label pass: the listing of a label is
\* never reached by a step that leaves an expired entry in the map.
C23_PurgeRemovesExactlyExpired ==
    [][/\ LabelPassBegins =>
             \A m \in Msgs :
                /\ recently_modified'[m] =
                      IF recently_modified[m] # NoEntry /\ now - recently_modified[m] < 300
                      THEN recently_modified[m] ELSE NoEntry
                /\ is_recently_modified(recently_modified', m)
                      = is_recently_modified(recently_modified, m)
       /\ (s_pc # "list" /\ s_pc' = "list") =>
             /\ LabelPassBegins
             /\ \A m \in Msgs : recently_modified'[m] # NoEntry
                                   => now - recently_modified'[m] < 300]_vars

\* the pass of a label has just begun 300 s after B was marked and 1 s after
\* C was: the entry of B is gone, that of C is kept, and C is guarded
C23_PurgedAtTheBoundary ==
    /\ s_pc = "list"
    /\ now = 301
    /\ recently_modified["B"] = NoEntry
    /\ recently_modified["C"] = 300
    /\ is_recently_modified(recently_modified, "C")

\* the user selects a label while a cycle of the sync task is running
SelectsMidCycle == keys' = Append(keys, "select") /\ s_pc # "sleep"

\* the order of a cycle is fixed at its start and nowhere else: while a
\* cycle runs no step changes label_ids or takes a selection out of the
\* channel, the labels are taken in the order of label_ids, and the start of
\* a cycle empties the channel and moves the label queued last to the front
OrderFixedAtCycleStart ==
    [][/\ s_pc # "sleep" =>
             /\ label_ids' = label_ids
             /\ \/ priority_ch' = priority_ch
                \/ \E l \in Labels : priority_ch' = Append(priority_ch, l)
             /\ s_label' # s_label => (s_label' = s_label + 1 \/ s_pc' = "sleep")
             /\ currently_syncing' \in {"none", label_ids[s_label]}
       /\ CycleStarts =>
             /\ priority_ch' = <<>>
             /\ Range(label_ids') = Range(RemoteLabelList)
             /\ priority_ch # <<>> => label_ids'[1] = priority_ch[Len(priority_ch)]
             /\ priority_ch = <<>> => label_ids' = RemoteLabelList]_vars

\* C24: the order of a cycle is fixed at its start, a selection made while
\* the cycle runs leaves the order of that cycle as it is, and the selection
\* waits in the channel, as the newest one, for the start of the next cycle,
\* which moves the newest selection to the front.
C24_SelectionAppliedAtNextCycle ==
    /\ OrderFixedAtCycleStart
    /\ [][SelectsMidCycle =>
             /\ priority_ch' # <<>>
             /\ priority_ch'[Len(priority_ch')] = ui_labels[selected_label_index' + 1]]_vars

\* C24, for the selections that find room in the channel
C24_QueuedSelectionAppliedAtNextCycle ==
    /\ OrderFixedAtCycleStart
    /\ [][(SelectsMidCycle /\ Len(priority_ch) < PriorityCapacity) =>
             /\ priority_ch' # <<>>
             /\ priority_ch'[Len(priority_ch')] = ui_labels[selected_label_index' + 1]]_vars

\* the user has selected CATEGORY_SOCIAL while the cycle was at its first
\* label, INBOX: the cycle has gone on to CATEGORY_SOCIAL as second label and
\* the selection is still in the channel
C24_SelectionWaits ==
    /\ keys = <<"select">>
    /\ label_ids = <<"CATEGORY_SOCIAL", "INBOX">>
    /\ s_label = 2
    /\ s_pc = "list"
    /\ priority_ch = <<"CATEGORY_SOCIAL">>

\* the list on display is what the store holds for the label under the cursor
ListFresh ==
    /\ ui_labels = get_labels(db_labels)
    /\ HasCurrentLabel => ui_messages = get_messages_by_label(CurrentLabel)

\* a step of the sync task that changes a row or an association of the store
SyncChangesStore ==
    /\ s_pc' # s_pc
    /\ (db_messages' # db_messages \/ message_labels' # message_labels)

\* C25: a pass of the sync task that upserts a message or removes an
\* association raises has_new_data; a pass that ends with has_new_data
\* raised goes on to send a refresh signal, and the flag is lowered only by
\* sending one; the send is eventually made; and every signal in the channel
\* is eventually taken out by the interactive loop, which at that step
\* reloads the labels and the list of the label under the cursor from the
\* store.
C25_ChangeIsRefreshed ==
    /\ [][/\ SyncChangesStore => has_new_data'
          /\ (s_pc = "mark" /\ s_pc' # s_pc /\ has_new_data) => s_pc' = "send"
          /\ (has_new_data /\ ~has_new_data') => refresh_ch' = refresh_ch + 1
          /\ refresh_ch' < refresh_ch => (refresh_ch' = 0 /\ ListFresh')]_vars
    /\ (s_pc = "send") ~> (s_pc # "send")
    /\ (refresh_ch > 0) ~> (refresh_ch = 0)

\* the pass of INBOX has upserted the new message D, its signal has been
\* consumed, and D is at the top of the list on display
C25_NewMessageOnDisplay ==
    /\ message_exists("D")
    /\ refresh_ch = 0
    /\ s_pc = "sleep"
    /\ ui_messages # <<>>
    /\ ui_messages[1].id = "D"

\* the interactive loop takes signals out of the refresh channel
DrainsRefresh == refresh_ch' < refresh_ch

\* C26: the refresh channel never holds more than one signal; the step of
\* the interactive loop that takes signals out of it takes all of them and
\* reloads the labels and the list from the store, once, whatever was sent
\* since the loop last looked; and the labels on display are reloaded by no
\* other step.
C26_RefreshSignalsCoalesce ==
    /\ [](refresh_ch \in {0, 1})
    /\ [][/\ DrainsRefresh => (refresh_ch' = 0 /\ ListFresh' /\ s_pc' = s_pc)
          /\ ui_labels' # ui_labels => DrainsRefresh
          /\ refresh_ch' > refresh_ch => (refresh_ch' = refresh_ch + 1 /\ s_pc = "send")]_vars

\* a signal is in the channel and the sync task, which has upserted D since,
\* is waiting to send another one: a single reload will show both changes
C26_SecondSignalWaits ==
    /\ refresh_ch = 1
    /\ s_pc = "send"
    /\ message_exists("D")
    /\ ~ListFresh

\* C27: the set of synced labels and the label being synced change only in
\* steps of the sync task, never in a step of a key handler, of the refresh
\* or of a spawned remote call; and the set of synced labels only grows.
C27_SyncStatusWrittenBySyncOnly ==
    [][/\ (synced_labels' # synced_labels \/ currently_syncing' # currently_syncing) =>
             /\ s_pc' # s_pc
             /\ uiVars' = uiVars
             /\ keys' = keys
       /\ synced_labels \subseteq synced_labels'
       /\ (keys' # keys \/ u_pc' # u_pc \/ spawned' # spawned \/ DrainsRefresh) =>
             /\ synced_labels' = synced_labels
             /\ currently_syncing' = currently_syncing]_vars

\* the user is in the middle of a delete, after a label selection, while the
\* sync task is in the pass of INBOX with CATEGORY_SOCIAL already synced
C27_HandlerDuringPass ==
    /\ keys = <<"select", "delete">>
    /\ u_pc = "del_remote"
    /\ currently_syncing = "INBOX"
    /\ synced_labels = {"CATEGORY_SOCIAL"}

\* C28: a label enters the set of synced labels only by a pass that listed
\* its message ids successfully. Every pass of a label ends by adding it to
\* the set, so the step that adds a label not yet in the set closes the
\* first pass of that label: if the listing of that pass failed, every
\* listing of the label so far has failed.
C28_SyncedOnlyAfterListing ==
    [][\A l \in synced_labels' \ synced_labels : l \notin list_failed]_vars

\* the first pass of CATEGORY_SOCIAL failed to list and the label is
\* in the set of synced labels
C28_SyncedAfterFailedListing ==
    /\ "CATEGORY_SOCIAL" \in synced_labels
    /\ "CATEGORY_SOCIAL" \in list_failed
    /\ "INBOX" \notin synced_labels

\* the program points of the Delete and Archive handlers
MutationPcs == {"del_local", "del_remote", "del_restore", "del_unguard",
                "arc_local", "arc_remote", "arc_restore", "arc_unguard"}

\* a step of the Delete or Archive handler
MutationStep == u_pc' # u_pc /\ (u_pc \in MutationPcs \/ u_pc' \in MutationPcs)

\* C29: under Delete and Archive the entry at the selection leaves the
\* message list exactly in the step where the remote call returns Ok (the
\* rest of the list stays in order and the selection is clamped to it);
\* every other step of the two handlers, the failure of the remote call and
\* the rollback after it included, leaves the list and the selection index
\* as they were when the key was pressed.
C29_ListChangesIffRemoteOk ==
    [][/\ RemoteCallSucceeds =>
             /\ ui_messages' = RemoveAt(ui_messages, selected_message_index)
             /\ Len(ui_messages') = Len(ui_messages) - 1
             /\ selected_message_index' = ClampAfterRemove(ui_messages', selected_message_index)
       /\ (MutationStep /\ ~RemoteCallSucceeds) =>
             /\ ui_messages' = ui_messages
             /\ selected_message_index' = selected_message_index
       /\ (ui_messages' # ui_messages /\ u_pc \in MutationPcs) => RemoteCallSucceeds]_vars

\* the remote call of a delete has failed and the rollback is done: the list
\* still has its two entries and the selection is on the second
C29_ListKeptAfterFailure ==
    /\ u_pc = "del_unguard"
    /\ status_message = "Delete failed"
    /\ Len(ui_messages) = 2
    /\ selected_message_index = 1

\* the sync task moves on in the pass of a label
PageStep == s_pc' # s_pc \/ s_i' # s_i

\* the decisions taken for the page id at hand: it goes on to the exists
\* check iff it is unguarded, and to get_message iff it has no row; nothing
\* but the Ok of get_message adds to the batch, and what it adds is the
\* message of the id at hand
FetchDecisions ==
    /\ (s_pc = "check" /\ PageStep) =>
          (s_pc' = "exists" <=> ~is_recently_modified(recently_modified, ids[s_i]))
    /\ (s_pc = "exists" /\ PageStep) =>
          /\ s_pc' = "fetch" <=> ~message_exists(ids[s_i])
          /\ s_pc' = "date" <=> message_exists(ids[s_i])
    /\ (messages' # messages /\ messages' # <<>>) =>
          /\ s_pc = "fetch"
          /\ messages' = Append(messages, RemoteMessage(ids[s_i]))

\* upsert_messages writes the batch and nothing else: every message of the
\* batch has a row and the association with the label afterwards, and an id
\* outside the batch keeps its row, field by field, and gets no association;
\* no other step of the sync task writes a row or adds an association
UpsertWritesTheBatch ==
    /\ (s_pc = "upsert" /\ PageStep) =>
          /\ \A m \in IdsOf(messages) :
                /\ db_messages'[m] # NoRow
                /\ <<m, label_ids[s_label]>> \in message_labels'
          /\ \A m \in Msgs \ IdsOf(messages) :
                /\ db_messages'[m] = db_messages[m]
                /\ \A l \in Labels : <<m, l>> \in message_labels' => <<m, l>> \in message_labels
          /\ \A p \in message_labels' \ message_labels : p[2] = label_ids[s_label]
    /\ (s_pc # "upsert" /\ PageStep) =>
          /\ db_messages' = db_messages
          /\ message_labels' \subseteq message_labels

CanSelectLabel == u_pc = "idle" /\ Len(ui_labels) > 1 /\ user_budget > 0

\* C32: the handler of a label selection is one step of the interactive
\* task whatever the priority channel holds (it is enabled with the channel
\* full as with room in it, and the task is idle again after it); with room
\* the label id is appended to the channel, and with the channel full the
\* channel is left as it was.
C32_SelectNeverBlocks ==
    /\ [](CanSelectLabel => ENABLED (\E d \in {-1, 1} : UiSelectLabel(d)))
    /\ [][keys' = Append(keys, "select") =>
             /\ u_pc = "idle" /\ u_pc' = "idle"
             /\ selected_label_index' # selected_label_index
             /\ IF Len(priority_ch) < PriorityCapacity
                THEN priority_ch' = Append(priority_ch, ui_labels[selected_label_index' + 1])
                ELSE priority_ch' = priority_ch]_vars

\* three labels were selected while the sync task slept: the channel holds
\* the first two and the third was dropped
C32_ThirdSelectionDropped ==
    /\ keys = <<"select", "select", "select">>
    /\ Len(priority_ch) = PriorityCapacity
    /\ ui_labels[selected_label_index + 1] # priority_ch[PriorityCapacity]
    /\ u_pc = "idle"

\* a page id has given its date to the watermark: it was not skipped, and it
\* has a row or its message was fetched
Contributes(m) == m \in remote_ids /\ (message_exists(m) \/ m \in IdsOf(messages))

\* C33: when the page loop is over and no page id has given a date to the
\* watermark, oldest_date is still i64::MAX, and from there to the end of
\* the pass the sync task removes no association, complete and non-empty
\* page included: no local id passes local_date >= oldest_date.
C33_NoWatermarkNoRemoval ==
    /\ [](s_pc = "upsert" => (oldest_date = I64_MAX <=> \A m \in Range(ids) : ~Contributes(m)))
    /\ [][(oldest_date = I64_MAX /\ s_pc \in {"upsert", "local", "rcheck", "remove"}) =>
             /\ s_pc' # "remove"
             /\ \A m \in Msgs : <<m, label_ids[s_label]>> \in message_labels
                                   => <<m, label_ids[s_label]>> \in message_labels']_vars

\* the complete page of INBOX held one id, guarded and skipped, and the
\* removal loop is over: the watermark is i64::MAX and an unguarded local id
\* that the page did not list is still under INBOX
C33_UnlistedIdKept ==
    /\ s_pc = "mark"
    /\ should_remove
    /\ remote_ids = {}
    /\ oldest_date = I64_MAX
    /\ \E k \in 1..Len(local_info) :
          /\ ~is_recently_modified(recently_modified, local_info[k][1])
          /\ local_info[k][1] \notin Range(ids)
          /\ <<local_info[k][1], "INBOX">> \in message_labels

\* C34: once a failed archive has been handled, every message of the thread
\* has in the store exactly the associations it had when the key arrived; a
\* message of the thread that did not carry the removed label does not have
\* it afterwards.
C34_FailedArchiveRestoresExactly ==
    [][ArchiveFailureHandled =>
          \A m \in IdsOf(thread_messages) :
              LabelsOf(message_labels', m) = LabelsOf(pre.labels, m)]_vars

\* a failed archive of the thread of A and B from CATEGORY_SOCIAL has been
\* handled: A, which was under INBOX only, is now under CATEGORY_SOCIAL too
C34_RollbackAddsLabel ==
    /\ keys = <<"archive">>
    /\ u_pc = "idle"
    /\ status_message = "Archive failed"
    /\ <<"A", "CATEGORY_SOCIAL">> \in message_labels
    /\ <<"A", "CATEGORY_SOCIAL">> \notin InitialLocalLabels

\* C35: once a failed delete has been handled the store is what it was when
\* the key arrived: every row of the thread is back as it was captured, and
\* the associations, of the thread and of every other message, are the same.
C35_FailedDeleteRestoresExactly ==
    [][DeleteFailureHandled =>
          /\ \A k \in 1..Len(thread_messages) :
                db_messages'[thread_messages[k].id] = thread_messages[k]
          /\ message_labels' = pre.labels]_vars

\* a failed delete of the thread of A and B from INBOX has been handled: the
\* rows are back under INBOX and B has lost CATEGORY_SOCIAL
C35_RollbackLosesLabel ==
    /\ keys = <<"delete">>
    /\ u_pc = "idle"
    /\ status_message = "Delete failed"
    /\ db_messages["B"] = InitialRows["B"]
    /\ <<"B", "INBOX">> \in message_labels
    /\ <<"B", "CATEGORY_SOCIAL">> \notin message_labels

----------------------------------------------------------------------------
\* The order of a cycle by itself: any list of label ids comes back from
\* list_labels, the user selects labels of the store (one of them, Label_1,
\* is never in the remote list), and every listing of message ids fails, so
\* that a pass does nothing but go through the labels.

MaxLabels == 3

OrderLabels == {"INBOX", "CATEGORY_SOCIAL", "SENT"}

OrderStoreLabels == OrderLabels \cup {"Label_1"}

\* the lists list_labels may return, an id possibly more than once
FetchedLists == UNION {[1..n -> OrderLabels] : n \in 1..MaxLabels}

OrderInit ==
    /\ db_labels = OrderStoreLabels
    /\ db_messages = InitialRows
    /\ message_labels = InitialLocalLabels
    /\ mailbox = SmallMailbox
    /\ remote_labels = InitialRemoteLabels
    /\ remote_changes = 0
    /\ recently_modified = [m \in Msgs |-> NoEntry]
    /\ lock = "free"
    /\ now = 0
    /\ SyncInit
    /\ UiInit
    /\ user_budget = MaxNavKeys
    /\ keys = <<>>
    /\ cycle_budget = MaxCycles

\* list_labels returns l: upsert_labels, has_new_data = true, and label_ids is
\* built in the order of l
OrderListLabels(l) ==
    /\ s_pc = "sleep"
    /\ Running
    /\ db_labels' = db_labels \cup Range(l)
    /\ has_new_data' = TRUE
    /\ label_ids' = l
    /\ s_pc' = "order"
    /\ cycle_budget # 0
    /\ cycle_budget' = IF cycle_budget > 0 THEN cycle_budget - 1 ELSE cycle_budget
    /\ UNCHANGED <<db_messages, message_labels, remoteVars, guardVars, now, priority_ch,
                   refresh_ch, s_label, passVars, list_failed, uiVars,
                   user_budget, keys>>

\* the priority channel is drained and the last value moved to the front
OrderDrain ==
    /\ s_pc = "order"
    /\ Running
    /\ label_ids' = PriorityOrder(label_ids, priority_ch)
    /\ priority_ch' = <<>>
    /\ s_label' = 1
    /\ s_pc' = "label"
    /\ UNCHANGED <<storeVars, remoteVars, guardVars, now, refresh_ch, has_new_data,
                   passVars, list_failed, uiVars,
                   boundVars>>

OrderNext ==
    \/ \E l \in FetchedLists : OrderListLabels(l)
    \/ OrderDrain
    \/ SyncBeginLabel
    \/ SyncListMessagesFail
    \/ SyncMarkSynced
    \/ SyncSendRefresh
    \/ UiRefresh
    \/ \E d \in {-1, 1} : UiSelectLabel(d)

OrderSpec == OrderInit /\ [][OrderNext]_vars

\* how many times x occurs in the sequence s
RECURSIVE Occurrences(_, _)
Occurrences(s, x) ==
    IF s = <<>> THEN 0
    ELSE (IF s[1] = x THEN 1 ELSE 0) + Occurrences(Tail(s), x)

Without(s, x) == SelectSeq(s, LAMBDA y : y # x)

\* C36: the order of a cycle holds every id of the fetched list as many
\* times as the list does. When the last value drained from the priority
\* channel is in the list, it is first in the order and the other ids keep
\* their relative order; when it is not in the list, or the channel is
\* empty, the order is the list. The cycle then takes the labels of the
\* order one after the other, each position once, and ends after the last.
C36_OrderIsPermutation ==
    [][/\ (s_pc = "order" /\ s_pc' = "label") =>
             /\ \A x \in OrderStoreLabels :
                   Occurrences(label_ids', x) = Occurrences(label_ids, x)
             /\ (priority_ch # <<>> /\ priority_ch[Len(priority_ch)] \in Range(label_ids)) =>
                   /\ label_ids'[1] = priority_ch[Len(priority_ch)]
                   /\ Without(label_ids', label_ids'[1]) = Without(label_ids, label_ids'[1])
             /\ (priority_ch = <<>> \/ priority_ch[Len(priority_ch)] \notin Range(label_ids)) =>
                   label_ids' = label_ids
             /\ s_label' = 1
       /\ (s_pc \notin {"sleep", "order"}) => label_ids' = label_ids
       /\ (s_pc = "label" /\ s_pc' = "list") => currently_syncing' = label_ids[s_label]
       /\ (s_label' # s_label /\ s_pc # "order") =>
             \/ s_label < Len(label_ids) /\ s_label' = s_label + 1 /\ s_pc' = "label"
             \/ s_label = Len(label_ids) /\ s_label' = 1 /\ s_pc' = "sleep"
       /\ (s_pc # "sleep" /\ s_pc' = "sleep") => s_label = Len(label_ids)]_vars

\* SENT, third in the fetched list, was selected and has been moved to the
\* front; the other two labels follow in the order of the list
C36_ThirdLabelFirst ==
    /\ s_pc = "label"
    /\ s_label = 1
    /\ keys # <<>>
    /\ label_ids = <<"SENT", "CATEGORY_SOCIAL", "INBOX">>
    /\ CurrentLabel = "SENT"

----------------------------------------------------------------------------
\* Cycles whose label listing may fail, beside the navigation keys: as
\* NavSpec, with room for a second cycle after a failed one.

MaxListCycles == 2

ListFailInit ==
    /\ db_labels = Labels
    /\ db_messages = InitialRows
    /\ message_labels = InitialLocalLabels
    /\ mailbox = Msgs
    /\ remote_labels = InitialRemoteLabels \cup {<<"D", "INBOX">>}
    /\ remote_changes = 0
    /\ recently_modified = [m \in Msgs |-> NoEntry]
    /\ lock = "free"
    /\ now = 0
    /\ SyncInit
    /\ UiInit
    /\ user_budget = MaxNavKeys
    /\ keys = <<>>
    /\ cycle_budget = MaxListCycles

ListFailNext == NavNext

ListFailSpec == ListFailInit /\ [][ListFailNext]_vars

\* a cycle starts and ends with the failure of list_labels
ListLabelsFails == s_pc = "sleep" /\ s_pc' = "sleep" /\ cycle_budget' # cycle_budget

\* C37: a cycle whose label listing fails changes neither the store, nor the
\* synced labels, nor the label being synced, nor the priority channel, and
\* sends no refresh signal; the values left in the channel are drained, and
\* the last of them applied, by the next cycle whose listing succeeds.
C37_FailedLabelListingChangesNothing ==
    [][/\ ListLabelsFails =>
             /\ storeVars' = storeVars
             /\ synced_labels' = synced_labels
             /\ currently_syncing' = currently_syncing
             /\ recently_modified' = recently_modified
             /\ priority_ch' = priority_ch
             /\ refresh_ch' = refresh_ch
             /\ uiVars' = uiVars
       /\ (s_pc = "sleep" /\ s_pc' = "sleep") =>
             /\ Len(priority_ch') >= Len(priority_ch)
             /\ SubSeq(priority_ch', 1, Len(priority_ch)) = priority_ch
       /\ CycleStarts =>
             /\ label_ids' = PriorityOrder(RemoteLabelList, priority_ch)
             /\ priority_ch' = <<>>]_vars

\* the first cycle failed at list_labels (it is spent and no label is
\* synced), and the second has started with the label selected last, INBOX,
\* moved to the front
C37_SelectionAppliedAfterFailure ==
    /\ cycle_budget = MaxListCycles - 2
    /\ synced_labels = {}
    /\ s_pc = "label"
    /\ keys = <<"select", "select">>
    /\ priority_ch = <<>>
    /\ label_ids[1] = CurrentLabel
    /\ label_ids # RemoteLabelList

\* C38: the selection index is a position of the message list whenever the
\* list has entries and is 0 when it has none; so the entry removed after a
\* successful delete or archive exists, and an undo inserts at a position
\* from 0 to the length of the list and leaves the selection on the entry
\* it has inserted.
C38_SelectionIndexInBounds ==
    /\ [](IF ui_messages = <<>>
          THEN selected_message_index = 0
          ELSE selected_message_index \in 0..(Len(ui_messages) - 1))
    /\ [][/\ RemoteCallSucceeds => selected_message_index < Len(ui_messages)
          /\ (keys' = Append(keys, "undo") /\ ui_messages' # ui_messages) =>
                /\ selected_message_index' \in 0..Len(ui_messages)
                /\ ui_messages' = InsertAt(ui_messages, selected_message_index',
                                           ui_messages'[selected_message_index' + 1])]_vars

\* the cursor was moved to the second and last entry, which was deleted:
\* the selection is back on the entry that is left
C38_ClampedAfterLastRemoved ==
    /\ keys = <<"move", "delete">>
    /\ status_message = "Deleted successfully"
    /\ u_pc = "idle"
    /\ Len(ui_messages) = 1
    /\ selected_message_index = 0

\* C39: the message list never has two entries of the same thread.
C39_OneEntryPerThread ==
    \A j, k \in 1..Len(ui_messages) :
        ui_messages[j].thread_id = ui_messages[k].thread_id => j = k

\* a delete failed and was undone: the entry of the thread, which the failed
\* delete had left in the list, is in the list twice
C39_EntryTwiceAfterUndo ==
    /\ keys = <<"delete", "undo">>
    /\ status_message = "Undone: delete"
    /\ Len(ui_messages) >= 2
    /\ ui_messages[1] = ui_messages[2]

\* C40: the handling of an undo key changes no entry of the guard map: no
\* id is marked and none is unmarked, those of the undone action included,
\* so that each of them is guarded after the undo exactly when its entry,
\* made by the archive or delete that was undone, is younger than the grace
\* period.
C40_UndoLeavesGuard ==
    [][keys' = Append(keys, "undo") =>
          /\ recently_modified' = recently_modified
          /\ \A m \in Msgs :
                (recently_modified'[m] # NoEntry /\ now' - recently_modified'[m] < GRACE_PERIOD)
                   = is_recently_modified(recently_modified, m)]_vars

\* the archive of C at time 0 was undone and the clock is at 300: the entry
\* of C is the one the archive made, and C is no longer guarded
C40_WindowOfTheArchiveRanOut ==
    /\ keys = <<"archive", "undo">>
    /\ status_message = "Undone: archive"
    /\ recently_modified["C"] = 0
    /\ now = 300
    /\ ~Guarded("C")

\* ---------------------------------------------------------------------------
\* The sync-state mutex: every place that takes it, and the awaited calls
\* between them (main.rs:153-285, 668-720, 753-815, ui.rs:286).
\* ---------------------------------------------------------------------------

Tasks == {"sync", "ui"}

\* Positions of the sync loop at which it calls sync_state_clone.lock():
\* main.rs:155 (label), 160 (cleanup), 175 (check), 237 (rcheck), 272 (mark).
SyncLockSites == {"label", "cleanup", "check", "rcheck", "mark"}

\* Positions of the interactive task at which it calls lock(): ui.rs:286 (draw),
\* main.rs:674 and 759 (mark the thread), main.rs:714 and 811 (unmark it).
UiLockSites == {"draw", "del_mark", "arc_mark", "del_unguard", "arc_unguard"}

\* The positions that can follow a position of the sync loop.
SyncSucc(p) ==
    CASE p = "sleep"   -> {"sleep", "label"}
      [] p = "label"   -> {"cleanup"}
      [] p = "cleanup" -> {"list"}
      [] p = "list"    -> {"check", "upsert", "mark"}
      [] p = "check"   -> {"check", "exists", "upsert"}
      [] p = "exists"  -> {"fetch", "date"}
      [] p = "fetch"   -> {"check", "upsert"}
      [] p = "date"    -> {"check", "upsert"}
      [] p = "upsert"  -> {"local", "mark"}
      [] p = "local"   -> {"rcheck", "mark"}
      [] p = "rcheck"  -> {"rcheck", "remove", "mark"}
      [] p = "remove"  -> {"rcheck", "mark"}
      [] p = "mark"    -> {"send", "label", "sleep"}
      [] p = "send"    -> {"label", "sleep"}

\* The positions that can follow a position of the interactive task.
UiSucc(p) ==
    CASE p = "draw"        -> {"idle"}
      [] p = "idle"        -> {"draw", "del_mark", "arc_mark"}
      [] p = "del_mark"    -> {"del_local"}
      [] p = "del_local"   -> {"del_remote"}
      [] p = "del_remote"  -> {"draw", "del_restore"}
      [] p = "del_restore" -> {"del_unguard"}
      [] p = "del_unguard" -> {"draw"}
      [] p = "arc_mark"    -> {"arc_local"}
      [] p = "arc_local"   -> {"arc_remote"}
      [] p = "arc_remote"  -> {"draw", "arc_restore"}
      [] p = "arc_restore" -> {"arc_unguard"}
      [] p = "arc_unguard" -> {"draw"}

\* Variant: the guard outlives the block that took it.
LockRelease_held(t) == t

\* The guard of `if let Ok(state) = ...lock() { ... }` is dropped where the
\* block ends.
LockRelease(t) == "free"

LockInit == GuardInit

\* lock() returns once no task holds the mutex.
LockAcquire(t) ==
    /\ lock = "free"
    /\ \/ t = "sync" /\ s_pc \in SyncLockSites
       \/ t = "ui" /\ u_pc \in UiLockSites
    /\ lock' = t
    /\ UNCHANGED <<storeVars, remoteVars, synced_labels, currently_syncing, recently_modified,
                   now, priority_ch, refresh_ch, syncVars, uiVars, boundVars>>

\* The block the sync loop runs under the guard, and the end of the block.
SyncSection ==
    /\ lock = "sync"
    /\ s_pc \in SyncLockSites
    /\ \/ /\ s_pc = "label"
          /\ \E l \in Labels : currently_syncing' = l
          /\ UNCHANGED <<synced_labels, recently_modified>>
       \/ /\ s_pc = "cleanup"
          /\ recently_modified' = cleanup_expired(recently_modified)
          /\ UNCHANGED <<synced_labels, currently_syncing>>
       \/ /\ s_pc \in {"check", "rcheck"}
          /\ UNCHANGED <<synced_labels, currently_syncing, recently_modified>>
       \/ /\ s_pc = "mark"
          /\ synced_labels' = synced_labels \cup {currently_syncing}
          /\ currently_syncing' = "none"
          /\ UNCHANGED recently_modified
    /\ lock' = LockRelease("sync")
    /\ s_pc' \in SyncSucc(s_pc)
    /\ UNCHANGED <<storeVars, remoteVars, now, priority_ch, refresh_ch, label_ids, s_label,
                   passVars, has_new_data, list_failed, uiVars, boundVars>>

\* An awaited call of the sync loop: list_labels, list_messages, message_exists,
\* get_message, the store calls, send and sleep.
SyncIo ==
    /\ s_pc \notin SyncLockSites
    /\ s_pc' \in SyncSucc(s_pc)
    /\ UNCHANGED <<storeVars, remoteVars, guardVars, now, priority_ch, refresh_ch, label_ids,
                   s_label, passVars, has_new_data, list_failed, uiVars, boundVars>>

\* The block the interactive task runs under the guard, and the end of the block.
UiSection ==
    /\ lock = "ui"
    /\ u_pc \in UiLockSites
    /\ \/ /\ u_pc = "draw"
          /\ UNCHANGED recently_modified
       \/ /\ u_pc \in {"del_mark", "arc_mark"}
          /\ recently_modified' = mark_modified_many(recently_modified, IdsOf(thread_messages))
       \/ /\ u_pc \in {"del_unguard", "arc_unguard"}
          /\ recently_modified' = unmark(recently_modified, IdsOf(thread_messages))
    /\ lock' = LockRelease("ui")
    /\ u_pc' \in UiSucc(u_pc)
    /\ UNCHANGED <<storeVars, remoteVars, synced_labels, currently_syncing, now, priority_ch,
                   refresh_ch, syncVars, ui_labels, selected_label_index, ui_messages,
                   selected_message_index, undo_stack, status_message, thread_messages,
                   current_label_id, label_to_remove, spawned, pre, boundVars>>

\* An awaited call of the interactive task: reading a key and resolving the
\* selected thread (main.rs:670, 755), then the store and the remote calls.
UiIo ==
    /\ u_pc \notin UiLockSites
    /\ u_pc' \in UiSucc(u_pc)
    /\ IF u_pc = "idle" /\ u_pc' # "draw"
       THEN \E t \in {"T1", "T2"} : thread_messages' = get_messages_by_thread(t)
       ELSE UNCHANGED thread_messages
    /\ UNCHANGED <<storeVars, remoteVars, guardVars, now, priority_ch, refresh_ch, syncVars,
                   ui_labels, selected_label_index, ui_messages, selected_message_index,
                   undo_stack, status_message, current_label_id, label_to_remove, spawned,
                   pre, boundVars>>

LockNext ==
    \/ \E t \in Tasks : LockAcquire(t)
    \/ SyncSection
    \/ SyncIo
    \/ UiSection
    \/ UiIo

\* Both tasks are scheduled; a task blocked in lock() gets the mutex when it is
\* free again and again.
LockSpec ==
    /\ LockInit
    /\ [][LockNext]_vars
    /\ WF_vars(SyncSection) /\ WF_vars(SyncIo)
    /\ WF_vars(UiSection) /\ WF_vars(UiIo)
    /\ \A t \in Tasks : SF_vars(LockAcquire(t))

\* A task is blocked in lock().
Waits(t) ==
    /\ lock # t
    /\ \/ t = "sync" /\ s_pc \in SyncLockSites
       \/ t = "ui" /\ u_pc \in UiLockSites

\* C31: a task holds the sync-state mutex only inside the block that took it,
\* never at an awaited remote or store call, so the mutex is always freed
\* again and a task that waits for it gets it.
C31_LockNeverHeldAcrossCall ==
    /\ [](lock = "sync" => s_pc \in SyncLockSites)
    /\ [](lock = "ui" => u_pc \in UiLockSites)
    /\ (lock # "free") ~> (lock = "free")
    /\ \A t \in Tasks : Waits(t) ~> (lock = t)

\* The interactive task reached mark_modified_many of a delete while the sync
\* loop is inside its guard check.
C31_UiWaitsWhileSyncHolds ==
    /\ lock = "sync"
    /\ s_pc = "check"
    /\ u_pc = "del_mark"
    /\ Waits("ui")

====
